---- MODULE Spec2Model ----
(***************************************************************************)
(* Deployment pipeline of cloud-run-mcp: the retry executor, the API       *)
(* activation gate, the resource provisioners, the build trigger and       *)
(* poller, the service deployer and the two orchestrator entry points.     *)
(*                                                                         *)
(* One step of the model is one invocation of a backend method (or one     *)
(* awaited operation) together with everything the code does after it up   *)
(* to the next await on the backend: the retry decision and its backoff    *)
(* sleep, the progress events, the catch blocks an error travels through.  *)
(* The backend answers every invocation nondeterministically.  `trace` is  *)
(* the record of what the program did: backend calls, sleeps and progress  *)
(* events, in program order.                                               *)
(***************************************************************************)
EXTENDS Integers, Sequences, FiniteSets, TLC

VARIABLES
    entry,          \* the function the caller invoked
    config,         \* deploy / deployImage: which request fields are given
    canExit,        \* whether `process.exit` exists where the program runs
    pc,             \* the call site the program is about to invoke, or "done"
    retries,        \* callWithRetry: the local `retries` of the running call
    faults,         \* failures the backend may still inject in this run
    trace,          \* calls, sleeps and progress events so far
    outcome,        \* what the entry function returned or threw
    cloud,          \* backend state: APIs, bucket, repository, service
    apis,           \* ensureApisEnabled: the `apis` argument
    apiIdx,         \* ensureApisEnabled: position of the for-loop
    attempt,        \* ensureApisEnabled: 1 in the try block, 2 in the catch block
    files,          \* deploy: shape of the `files` argument
    dockerfile,     \* whether the source holds a Dockerfile
    skipIamCheck,   \* the `skipIamCheck` argument
    exists,         \* deployToCloudRun: the local `exists`
    service,        \* deployToCloudRun: the fields of `service` that vary
    now,            \* the clock Date.now() reads, in ms
    callers,        \* deploy calls in flight at the same time
    shared,         \* what those calls share: objects, images, services
    items,          \* deploy / zipFiles: the items of the `files` array
    tool,           \* the tool whose handler was called, "" when none was
    gcpCredentialsAvailable,    \* the option registerTools was given
    input,          \* the tool's input: which fields are given and valid
    result,         \* what the tool's handler returned or threw
    allLogs,        \* get_service_log: the logs of the pages fetched so far
    requestOptions, \* get_service_log: what the last page gave for the next
    registered,     \* the tools registered at the server, and by which function
    statuses        \* the statuses the backend reports for a build that is not over

ctl == <<pc, retries, faults, trace, outcome>>
args ==
    <<entry, config, canExit, apis, files, dockerfile, skipIamCheck, items,
      statuses>>
gateVars == <<apiIdx, attempt>>
runVars == <<exists, service>>
twoCalls == <<now, callers, shared>>
toolVars ==
    <<tool, gcpCredentialsAvailable, input, result, allLogs, requestOptions,
      registered>>
vars == <<entry, config, canExit, pc, retries, faults, trace, outcome, cloud, apis, apiIdx,
          attempt, files, dockerfile, skipIamCheck, exists,
          service, now, callers, shared, items, tool, gcpCredentialsAvailable,
          input, result, allLogs, requestOptions, registered, statuses>>

----------------------------------------------------------------------------
(* Program constants *)

maxRetries == 7
initialBackoff == 1000
FIRST_RETRY_BACKOFF == 15000
PERMISSION_DENIED == 7
NOT_FOUND == 5
INVALID_ARGUMENT == 3
API_RETRY_DELAY == 1000
BUILD_POLL_INTERVAL == 5000
DELAY_WAIT_FOR_BUILD_LOGS == 10000

REQUIRED_APIS_FOR_SOURCE_DEPLOY ==
    << "iam.googleapis.com", "storage.googleapis.com",
       "cloudbuild.googleapis.com", "artifactregistry.googleapis.com",
       "run.googleapis.com" >>

REQUIRED_APIS_FOR_IMAGE_DEPLOY == << "run.googleapis.com" >>

REPO_NAME == "mcp-cloud-run-deployments"
ZIP_FILE_NAME == "source.zip"
IMAGE_TAG == "latest"

(* Bounds of the model *)

RetryFaults == 9        \* failures the backend may inject into one callWithRetry
GateFaults == 3         \* ... into one ensureApisEnabled
BuildFaults == 2        \* ... into one triggerCloudBuild
RunFaults == 2          \* ... into one deployToCloudRun
MaxClock == 2           \* ms the clock may advance while two calls run
ProvisionFaults == 2    \* failures injected into the calls of one provisioner
MaxCalls == 3           \* sequential calls of one provisioner
PipelineFaults == 2     \* ... into one deploy / deployImage
MaxApis == 2            \* longest capability list given to the gate alone
MaxPolls == 2           \* most non-terminal statuses a build reports
PollFaults == 0         \* ... into one triggerCloudBuild whose requests do not fail
MaxLogEntries == 2      \* most log entries a log query returns
MaxItems == 2           \* longest `files` array given to deploy and zipFiles
MaxPages == 2           \* most log pages the backend has for one service
ToolFaults == 1         \* failures injected while a tool handler runs
ZipFaults == 1          \* failures of the archiver when zipFiles runs alone

----------------------------------------------------------------------------
(* Values exchanged with the backend *)

Range(q) == {q[i] : i \in 1..Len(q)}

\* String.prototype.toLowerCase on the tokens that occur.
ToLowerCase(w) ==
    CASE w = "invokerIamDisabled" -> "invokeriamdisabled"
      [] w = "INVOKERIAMDISABLED" -> "invokeriamdisabled"
      [] w = "IAM Policy Violation" -> "iam policy violation"
      [] w = "Field" -> "field"
      [] w = "Dockerfile" -> "dockerfile"
      [] w = "DOCKERFILE" -> "dockerfile"
      [] OTHER -> w

\* An item of the `files` array.  `type` is what typeof yields, with "null"
\* for null, whose typeof is 'object'.  A path item has a root and a base
\* name (path.basename), and the file system says whether the path exists,
\* whether it is a directory and which of the entries looked for the
\* directory holds.  An object item has or lacks the keys `filename` and
\* `content`; `content` is a text or the empty string.
PathItem(root, base, there, isDir, entries) ==
    [type |-> "string", root |-> root, base |-> base, exists |-> there,
     isDir |-> isDir, entries |-> entries, hasFilename |-> FALSE,
     hasContent |-> FALSE, content |-> ""]
ObjectItem(base, hasFilename, hasContent, content) ==
    [type |-> "object", root |-> "", base |-> base, exists |-> FALSE,
     isDir |-> FALSE, entries |-> {}, hasFilename |-> hasFilename,
     hasContent |-> hasContent, content |-> content]
NullItem == [ObjectItem("", FALSE, FALSE, "") EXCEPT !.type = "null"]
NumberItem == [ObjectItem("", FALSE, FALSE, "") EXCEPT !.type = "number"]

\* A file, a directory holding `entries`, and a path nothing is at.
File(base) == PathItem("/srv", base, TRUE, FALSE, {})
Directory(base, entries) == PathItem("/srv", base, TRUE, TRUE, entries)
Missing(root, base) == PathItem(root, base, FALSE, FALSE, {})
\* A {filename, content} item.
Content(base, content) == ObjectItem(base, TRUE, TRUE, content)


ErrorCodes == {INVALID_ARGUMENT, NOT_FOUND, PERMISSION_DENIED, 13}

\* A response of the backend.  `msg` is the error's message as a sequence of
\* tokens (empty: no message), `list` the entries of a list response.
Ok(v) == [ok |-> TRUE, code |-> 0, msg |-> <<>>, val |-> v, list |-> <<>>]
OkList(l) == [ok |-> TRUE, code |-> 0, msg |-> <<>>, val |-> "", list |-> l]
Err(c, m) == [ok |-> FALSE, code |-> c, msg |-> m, val |-> "", list |-> <<>>]


\* A component is called on its own, not from deploy or deployImage.
Standalone == entry \notin {"deploy", "deployImage"}

\* Plain failures: the retryable class and one other class.  Under deploy and
\* deployImage only the other class is injected: what callWithRetry does with
\* the retryable class is explored component by component.
Failures ==
    IF Standalone
    THEN {Err(PERMISSION_DENIED, <<"denied">>), Err(13, <<"internal">>)}
    ELSE {Err(13, <<"internal">>)}

\* NOT_FOUND is how the backend says that a resource is absent: no fault.
Cost(r) == IF r.ok \/ r.code = NOT_FOUND THEN 0 ELSE 1

\* An error object.  `id` is the position in `trace` of the backend call
\* that raised it, 0 for an error the program itself constructs with `new
\* Error(...)`; `name` tells which message template built it, `subject` and
\* `msg` are the template's arguments.
BackendError(r, id) ==
    [id |-> id, code |-> r.code, name |-> "backend", subject |-> "",
     msg |-> r.msg, lines |-> <<>>]
NewError(name, subject, msg, lines) ==
    [id |-> 0, code |-> 0, name |-> name, subject |-> subject, msg |-> msg,
     lines |-> lines]
NoError == NewError("", "", <<>>, <<>>)

\* Entries of `trace`.
Event(op, arg) ==
    [op |-> op, arg |-> arg, ok |-> TRUE, n |-> 0, val |-> "", msg |-> <<>>,
     flags |-> {}, err |-> NoError]
Call(method, r, flags) ==
    [op |-> "call", arg |-> method, ok |-> r.ok, n |-> r.code, val |-> r.val,
     msg |-> IF r.ok THEN r.list ELSE r.msg, flags |-> flags, err |-> NoError]
Sleep(who, ms) == [Event("sleep", who) EXCEPT !.n = ms]
Progress(level, tag) == [Event("progress", tag) EXCEPT !.val = level]
Enter(fn, arg) == [Event("enter", fn) EXCEPT !.val = arg]

\* `error.message`: the text of a backend error, or the filled template of an
\* error the program constructed.
Message(e) ==
    IF e.name = "backend" THEN e.msg
    ELSE <<e.name, e.subject>> \o e.msg \o e.lines

NoOutcome == [kind |-> "none", val |-> "", id |-> 0, err |-> NoError]
Returned(v, id) == [kind |-> "returned", val |-> v, id |-> id, err |-> NoError]
Thrown(e) == [kind |-> "thrown", val |-> "", id |-> 0, err |-> e]
\* process.exit(code): the process is gone, the caller gets nothing.
Exited(code) == [kind |-> "exited", val |-> "", id |-> code, err |-> NoError]

----------------------------------------------------------------------------
(* callWithRetry *)

RECURSIVE Pow2(_)
Pow2(n) == IF n <= 0 THEN 1 ELSE 2 * Pow2(n - 1)

\* Mutant of Backoff: exponential from the first retry on.
Backoff_Exponential(n) == initialBackoff * Pow2(n - 1)

\* The wait before retry number n (n = 1 is the first retry).
Backoff(n) ==
    IF n = 1 THEN FIRST_RETRY_BACKOFF ELSE initialBackoff * Pow2(n - 2)

\* Mutant of callWithRetry: `retries <= maxRetries`, one retry too many.
callWithRetry_OneMore(r, n) ==
    IF r.ok
    THEN [act |-> "return", retries |-> n, backoff |-> 0]
    ELSE IF r.code = PERMISSION_DENIED /\ n <= maxRetries
         THEN [act |-> "retry", retries |-> n + 1, backoff |-> Backoff(n + 1)]
         ELSE [act |-> "throw", retries |-> n, backoff |-> 0]

\* Mutant of callWithRetry: every error class is retried.
callWithRetry_AnyError(r, n) ==
    IF r.ok
    THEN [act |-> "return", retries |-> n, backoff |-> 0]
    ELSE IF n < maxRetries
         THEN [act |-> "retry", retries |-> n + 1, backoff |-> Backoff(n + 1)]
         ELSE [act |-> "throw", retries |-> n, backoff |-> 0]

\* One turn of the while loop: fn() answered r while `retries` was n.
callWithRetry(r, n) ==
    IF r.ok
    THEN [act |-> "return", retries |-> n, backoff |-> 0]
    ELSE IF r.code = PERMISSION_DENIED /\ n < maxRetries
         THEN [act |-> "retry", retries |-> n + 1, backoff |-> Backoff(n + 1)]
         ELSE [act |-> "throw", retries |-> n, backoff |-> 0]

\* What one turn adds to the trace: the invocation, and the backoff sleep
\* when the loop goes round again.
Invocation(method, r, flags) ==
    LET d == callWithRetry(r, retries)
    IN  IF d.act = "retry"
        THEN <<Call(method, r, flags), Sleep("callWithRetry", d.backoff)>>
        ELSE <<Call(method, r, flags)>>

\* Control transfers.  Every action sets pc, retries, trace and outcome
\* through exactly one of these.
Again(r, tr) ==
    /\ pc' = pc
    /\ retries' = callWithRetry(r, retries).retries
    /\ trace' = tr
    /\ outcome' = outcome

Goto(site, tr) ==
    /\ pc' = site
    /\ retries' = 0
    /\ trace' = tr
    /\ outcome' = outcome

Finish(o, tr) ==
    /\ pc' = "done"
    /\ retries' = 0
    /\ trace' = tr
    /\ outcome' = o

Inject(r) ==
    /\ Cost(r) <= faults
    /\ faults' = faults - Cost(r)

----------------------------------------------------------------------------
(* callWithRetry on its own: fn is any backend method *)


FnResponses ==
    {Ok(v) : v \in {"v1", "v2"}}
      \cup {Err(c, m) : c \in ErrorCodes, m \in {<<>>, <<"denied">>}}

FnCall ==
    /\ pc = "fn"
    /\ \E r \in FnResponses :
         LET tr == trace \o Invocation("fn", r, {})
             d == callWithRetry(r, retries)
             id == Len(trace) + 1
         IN  /\ Inject(r)
             /\ CASE d.act = "retry" -> Again(r, tr)
                  [] d.act = "return" -> Finish(Returned(r.val, id), tr)
                  [] d.act = "throw" -> Finish(Thrown(BackendError(r, id)), tr)
    /\ UNCHANGED <<args, twoCalls, toolVars, cloud, gateVars, runVars>>

NoCloud == [apis |-> [a \in {} |-> ""], bucket |-> FALSE, repo |-> FALSE]
NoService ==
    [invokerIamDisabled |-> FALSE, name |-> FALSE, image |-> "", revision |-> 0]
NoShared == [objects |-> <<>>, images |-> <<>>, services |-> <<>>, revisions |-> <<>>]

\* The request of a call: every field given.
FullConfig == [projectId |-> TRUE, serviceName |-> TRUE, imageUrl |-> TRUE]

\* A component called directly, not through deploy or deployImage.
\* No tool handler is running: the component is called by a program.
NoInput ==
    [project |-> "undefined", service |-> "undefined", folderPath |-> "undefined",
     files |-> "undefined", imageUrl |-> "undefined"]
NoResult == [kind |-> "none", text |-> <<>>]
NoRegistration == [by |-> "", names |-> <<>>]
NoToolCall ==
    /\ tool = ""
    /\ gcpCredentialsAvailable = TRUE
    /\ input = NoInput
    /\ result = NoResult
    /\ allLogs = <<>>
    /\ requestOptions = ""
    /\ registered = NoRegistration

Direct ==
    /\ config = FullConfig
    /\ canExit = TRUE
    /\ NoToolCall

\* The statuses of a build under way.
RunningStatuses == {"QUEUED", "WORKING"}

Idle ==
    /\ now = 0
    /\ callers = <<>>
    /\ shared = NoShared
    /\ retries = 0
    /\ trace = <<>>
    /\ outcome = NoOutcome
    /\ apiIdx = 0
    /\ attempt = 0
    /\ exists = FALSE
    /\ service = NoService

InitRetry ==
    /\ Idle
    /\ statuses = RunningStatuses
    /\ Direct
    /\ entry = "callWithRetry"
    /\ pc = "fn"
    /\ faults = RetryFaults
    /\ cloud = NoCloud
    /\ apis = <<>>
    /\ files = "none"
    /\ items = <<>>
    /\ dockerfile = FALSE
    /\ skipIamCheck = FALSE

NextRetry == FnCall

SpecRetry == InitRetry /\ [][NextRetry]_vars

----------------------------------------------------------------------------
(* What the orchestrators do between the stages *)

\* The site deploy (entry "deploy") or deployImage goes to when the stage
\* function fn has returned.
\* Mutant of NextSite: deploy goes from the repository to the service.
NextSite_SkipsBuild(e, fn) ==
    IF e = "deployImage"
    THEN "run.start"
    ELSE CASE fn = "ensureApisEnabled" -> "deploy.detect"
           [] fn = "ensureStorageBucketExists" -> "zip"
           [] fn = "zipFiles" -> "upload.save"
           [] fn = "uploadToStorageBucket" -> "repo.get"
           [] fn = "ensureArtifactRegistryRepoExists" -> "run.start"
           [] fn = "triggerCloudBuild" -> "run.start"

\* Mutant of NextSite: the repository is provisioned right after the bucket.
NextSite_RepoFirst(e, fn) ==
    IF e = "deployImage"
    THEN "run.start"
    ELSE CASE fn = "ensureApisEnabled" -> "deploy.detect"
           [] fn = "ensureStorageBucketExists" -> "repo.get"
           [] fn = "ensureArtifactRegistryRepoExists" -> "zip"
           [] fn = "zipFiles" -> "upload.save"
           [] fn = "uploadToStorageBucket" -> "build.start"
           [] fn = "triggerCloudBuild" -> "run.start"

NextSite(e, fn) ==
    IF e = "deployImage"
    THEN "run.start"
    ELSE CASE fn = "ensureApisEnabled" -> "deploy.detect"
           [] fn = "ensureStorageBucketExists" -> "zip"
           [] fn = "zipFiles" -> "upload.save"
           [] fn = "uploadToStorageBucket" -> "repo.get"
           [] fn = "ensureArtifactRegistryRepoExists" -> "build.start"
           [] fn = "triggerCloudBuild" -> "run.start"

\* Progress events the orchestrator emits right after fn has returned.
AfterStageEvents(e, fn) ==
    CASE e = "deployImage" /\ fn = "ensureApisEnabled" ->
           <<Progress("info", "Project"), Progress("info", "Region"),
             Progress("info", "Service Name"), Progress("info", "Image URL")>>
      [] e = "deploy" /\ fn = "zipFiles" ->
           <<Progress("info", "Uploading buffer")>>
      [] e = "deploy" /\ fn = "uploadToStorageBucket" ->
           <<Progress("info", "Source code uploaded successfully")>>
      [] fn = "deployToCloudRun" ->
           <<Progress("info", "Deployment Completed Successfully")>>
      [] OTHER -> <<>>

\* fn returns (v, id): to the caller when fn is the entry, else into the
\* orchestrator, which goes on to its next stage or returns the service.
StageReturns(fn, v, id, tr) ==
    LET tr2 == tr \o <<Event("return", fn)>> \o AfterStageEvents(entry, fn)
    IN  IF entry = fn \/ fn = "deployToCloudRun"
        THEN Finish(Returned(v, id), tr2)
        ELSE Goto(NextSite(entry, fn), tr2)

\* Mutant of DeploymentFailed: the report has severity warn.
DeploymentFailed_Warn(e) ==
    <<[Progress("warn", "Deployment Failed") EXCEPT !.msg = Message(e)]>>

\* The catch block of deploy and of deployImage.
DeploymentFailed(e) ==
    <<[Progress("error", "Deployment Failed") EXCEPT !.msg = Message(e)]>>

\* Mutant of Rethrown: the catch block throws a new error with the report.
Rethrown_Wrapped(e) == NewError("Deployment Failed", "", Message(e), <<>>)

\* `throw error` in the catch block of deploy and of deployImage.
Rethrown(e) == e

\* Mutant of StageThrows: the orchestrator swallows a failed build.
StageThrows_BuildSwallowed(fn, e, tr) ==
    LET tr2 == tr \o <<[Event("throw", fn) EXCEPT !.err = e]>>
    IN  IF entry = fn
        THEN Finish(Thrown(e), tr2)
        ELSE IF fn = "triggerCloudBuild"
        THEN Goto("run.start", tr2)
        ELSE Finish(Thrown(Rethrown(e)), tr2 \o DeploymentFailed(e))

\* fn throws e: to the caller when fn is the entry, else into the catch block
\* of the orchestrator, which reports and rethrows.
StageThrows(fn, e, tr) ==
    LET tr2 == tr \o <<[Event("throw", fn) EXCEPT !.err = e]>>
    IN  IF entry = fn
        THEN Finish(Thrown(e), tr2)
        ELSE Finish(Thrown(Rethrown(e)), tr2 \o DeploymentFailed(e))

----------------------------------------------------------------------------
(* ensureApisEnabled and checkAndEnableApi *)

ApiNames == Range(REQUIRED_APIS_FOR_SOURCE_DEPLOY)
\* The capabilities the gate is given when it is called on its own.
GateApiNames == {"iam.googleapis.com", "run.googleapis.com"}
ApiStates == {"ENABLED", "DISABLED"}

api == apis[apiIdx]

\* Mutant of NeedsEnabling: enable whatever the state is.
NeedsEnabling_Always(state) == TRUE

\* Mutant of NeedsEnabling: no state leads to the activation.
NeedsEnabling_Never(state) == FALSE

\* checkAndEnableApi: `service.state !== 'ENABLED'`.
NeedsEnabling(state) == state # "ENABLED"

\* Mutant of OnApiFailure: a second retry before giving up.
OnApiFailure_TwoRetries(n) == IF n <= 2 THEN "retry" ELSE "giveUp"

\* ensureApisEnabled: the catch block that attempt number n ends in waits and
\* tries once more when n = 1 (the outer catch) and gives up when n = 2 (the
\* inner catch).
OnApiFailure(n) == IF n = 1 THEN "retry" ELSE "giveUp"

\* checkAndEnableApi(api) has returned: the for-loop moves on.
ApiDone(tr) ==
    IF apiIdx < Len(apis)
    THEN /\ Goto("gate.getService",
                 tr \o <<Enter("checkAndEnableApi", apis[apiIdx + 1])>>)
         /\ apiIdx' = apiIdx + 1
         /\ attempt' = 1
    ELSE /\ StageReturns("ensureApisEnabled", "", 0,
                 tr \o <<Progress("info", "All required APIs are enabled.")>>)
         /\ UNCHANGED gateVars

\* checkAndEnableApi(api) has thrown: the catch block of the first attempt
\* waits and calls it again, the catch block of the retry gives up.
ApiFailed(tr) ==
    IF OnApiFailure(attempt) = "retry"
    THEN /\ Goto("gate.getService",
                 tr \o <<[Progress("warn", "Failed to check/enable, retrying in 1s")
                             EXCEPT !.msg = <<api>>],
                         Sleep("ensureApisEnabled", API_RETRY_DELAY),
                         Enter("checkAndEnableApi", api)>>)
         /\ attempt' = attempt + 1
         /\ apiIdx' = apiIdx
    ELSE /\ StageThrows("ensureApisEnabled",
                 NewError("Failed to ensure API is enabled after retry", api,
                          <<>>, <<>>),
                 tr \o <<[Progress("error", "Failed to ensure API is enabled after retry")
                             EXCEPT !.msg = <<api>>]>>)
         /\ UNCHANGED gateVars

GateStart ==
    /\ pc = "gate.start"
    /\ LET tr == trace \o <<Progress("info", "Checking and enabling required APIs...")>>
       IN  IF apis = <<>>
           THEN /\ StageReturns("ensureApisEnabled", "", 0,
                        tr \o <<Progress("info", "All required APIs are enabled.")>>)
                /\ UNCHANGED gateVars
           ELSE /\ Goto("gate.getService",
                        tr \o <<Enter("checkAndEnableApi", apis[1])>>)
                /\ apiIdx' = 1
                /\ attempt' = 1
    /\ UNCHANGED <<faults, args, twoCalls, toolVars, cloud, runVars>>

GateGetService ==
    /\ pc = "gate.getService"
    /\ \E r \in {Ok(cloud.apis[api])} \cup Failures :
         LET tr == trace \o Invocation("serviceUsage.getService", r, {api})
             d == callWithRetry(r, retries)
         IN  /\ Inject(r)
             /\ CASE d.act = "retry" -> Again(r, tr) /\ UNCHANGED gateVars
                  [] d.act = "throw" -> ApiFailed(tr)
                  [] d.act = "return" ->
                       IF NeedsEnabling(r.val)
                       THEN /\ Goto("gate.enableService",
                                    tr \o <<[Progress("info", "API is not enabled. Enabling...")
                                               EXCEPT !.msg = <<api>>]>>)
                            /\ UNCHANGED gateVars
                       ELSE ApiDone(tr)
    /\ UNCHANGED <<args, twoCalls, toolVars, cloud, runVars>>

GateEnableService ==
    /\ pc = "gate.enableService"
    /\ \E r \in {Ok("operation")} \cup Failures :
         LET tr == trace \o Invocation("serviceUsage.enableService", r, {api})
             d == callWithRetry(r, retries)
         IN  /\ Inject(r)
             /\ CASE d.act = "retry" -> Again(r, tr) /\ UNCHANGED gateVars
                  [] d.act = "throw" -> ApiFailed(tr)
                  [] d.act = "return" ->
                       Goto("gate.operation", tr) /\ UNCHANGED gateVars
    /\ UNCHANGED <<args, twoCalls, toolVars, cloud, runVars>>

\* await operation.promise(): not under callWithRetry.
GateOperation ==
    /\ pc = "gate.operation"
    /\ \E r \in {Ok("done")} \cup Failures :
         LET tr == trace \o <<Call("enableService.operation", r, {api})>>
         IN  /\ Inject(r)
             /\ IF r.ok
                THEN /\ ApiDone(tr)
                     /\ cloud' = [cloud EXCEPT !.apis[api] = "ENABLED"]
                ELSE /\ ApiFailed(tr)
                     /\ UNCHANGED cloud
    /\ UNCHANGED <<args, twoCalls, toolVars, runVars>>

RECURSIVE SeqsUpTo(_, _)
SeqsUpTo(S, n) ==
    IF n = 0 THEN {<<>>}
    ELSE LET shorter == SeqsUpTo(S, n - 1)
         IN  shorter \cup {Append(q, x) : q \in shorter, x \in S}

InitGate ==
    /\ Idle
    /\ statuses = RunningStatuses
    /\ Direct
    /\ entry = "ensureApisEnabled"
    /\ pc = "gate.start"
    /\ faults = GateFaults
    /\ apis \in SeqsUpTo(GateApiNames, MaxApis)
    /\ \E st \in [GateApiNames -> ApiStates] :
         cloud = [apis |-> st, bucket |-> FALSE, repo |-> FALSE]
    /\ files = "none"
    /\ items = <<>>
    /\ dockerfile = FALSE
    /\ skipIamCheck = FALSE

NextGate ==
    \/ GateStart
    \/ GateGetService
    \/ GateEnableService
    \/ GateOperation

SpecGate == InitGate /\ [][NextGate]_vars

----------------------------------------------------------------------------
(* ensureStorageBucketExists, zipFiles, uploadToStorageBucket,
   ensureArtifactRegistryRepoExists *)

\* The outer catch block of ensureStorageBucketExists.
BucketThrows(e, tr) ==
    StageThrows("ensureStorageBucketExists", e,
        tr \o <<[Progress("error", "Error checking/creating bucket")
                   EXCEPT !.msg = e.msg]>>)

\* Mutant of Exists: the answer of bucket.exists() is taken as "absent".
Exists_Never(v) == FALSE

\* `if (exists)` on the answer of bucket.exists().
Exists(v) == v = "true"

BucketExists ==
    /\ pc = "bucket.exists"
    /\ \E r \in {Ok(IF cloud.bucket THEN "true" ELSE "false")} \cup Failures :
         LET id == Len(trace) + 1
             tr == trace \o Invocation("storage.bucket.exists", r, {})
             d == callWithRetry(r, retries)
         IN  /\ Inject(r)
             /\ CASE d.act = "retry" -> Again(r, tr)
                  [] d.act = "throw" -> BucketThrows(BackendError(r, id), tr)
                  [] d.act = "return" /\ Exists(r.val) ->
                       StageReturns("ensureStorageBucketExists", "bucket", id,
                           tr \o <<Progress("info", "Bucket already exists.")>>)
                  [] d.act = "return" /\ ~Exists(r.val) ->
                       Goto("bucket.create",
                            tr \o <<Progress("info", "Bucket does not exist. Creating")>>)
    /\ UNCHANGED <<args, twoCalls, toolVars, cloud, gateVars, runVars>>

BucketCreate ==
    /\ pc = "bucket.create"
    /\ \E r \in {Ok("bucket")} \cup Failures :
         LET id == Len(trace) + 1
             tr == trace \o Invocation("storage.createBucket", r, {})
             d == callWithRetry(r, retries)
         IN  /\ Inject(r)
             /\ CASE d.act = "retry" -> Again(r, tr) /\ UNCHANGED cloud
                  [] d.act = "throw" ->
                       /\ BucketThrows(BackendError(r, id),
                              tr \o <<[Progress("error", "Failed to create storage bucket")
                                         EXCEPT !.msg = r.msg]>>)
                       /\ UNCHANGED cloud
                  [] d.act = "return" ->
                       /\ StageReturns("ensureStorageBucketExists", "bucket", id,
                              tr \o <<Progress("info", "Storage bucket created successfully")>>)
                       /\ cloud' = [cloud EXCEPT !.bucket = TRUE]
    /\ UNCHANGED <<args, twoCalls, toolVars, gateVars, runVars>>

\* The "hack" for WSL: a path that starts with /c is looked for under /mnt.
Resolve(root) == IF root = "/c" THEN "/mnt/c" ELSE root

\* What the forEach callback of zipFiles throws on an item, "" when it adds
\* the item to the archive.  The first test reads `'filename' in file` from
\* every item whose typeof is 'object': from null too, which throws.
ItemFault(it) ==
    CASE it.type = "null" -> "TypeError"
      [] it.type = "object" /\ it.hasFilename /\ it.hasContent -> ""
      [] it.type = "string" ->
           IF it.exists THEN "" ELSE "File or directory not found"
      [] OTHER -> "Invalid file format"
\* forEach goes through the items in order: the first throw ends it.
FirstFault(fs) ==
    LET bad == {i \in 1..Len(fs) : ItemFault(fs[i]) # ""}
    IN  IF bad = {} THEN 0 ELSE CHOOSE i \in bad : \A j \in bad : i <= j
ZipError(it) ==
    CASE ItemFault(it) = "File or directory not found" ->
           NewError("File or directory not found", it.base,
                    <<Resolve(it.root)>>, <<>>)
      [] ItemFault(it) = "TypeError" ->
           NewError("TypeError", "",
                    <<"Cannot use 'in' operator to search for 'filename' in null">>,
                    <<>>)
      [] OTHER -> NewError("Invalid file format", "", <<>>, <<>>)

\* zipFiles: an item that is neither a path nor a {filename, content} object
\* makes it reject, and so does an error of the archiver.
ZipFiles ==
    /\ pc = "zip"
    /\ \E r \in {Ok("zipBuffer"), Err(0, <<"archiver error">>)} :
         LET id == Len(trace) + 1
             started == trace \o <<Progress("info", "Creating in-memory zip archive...")>>
         IN  /\ Inject(r)
             /\ IF FirstFault(items) # 0
                THEN /\ r.ok
                     /\ StageThrows("zipFiles",
                            ZipError(items[FirstFault(items)]), started)
                ELSE IF r.ok
                THEN StageReturns("zipFiles", r.val, id,
                         started \o <<Call("archiver.finalize", r, {}),
                                      Progress("info", "Files zipped successfully")>>)
                ELSE StageThrows("zipFiles", BackendError(r, id + 1),
                         started \o <<Call("archiver.finalize", r, {}),
                                      [Progress("error", "Archiver error")
                                         EXCEPT !.msg = r.msg]>>)
    /\ UNCHANGED <<args, twoCalls, toolVars, cloud, gateVars, runVars>>

UploadSave ==
    /\ pc = "upload.save"
    /\ \E r \in {Ok("file")} \cup Failures :
         LET id == Len(trace) + 1
             tr == trace \o Invocation("storage.bucket.file.save", r, {"source.zip"})
             d == callWithRetry(r, retries)
         IN  /\ Inject(r)
             /\ CASE d.act = "retry" -> Again(r, tr)
                  [] d.act = "throw" ->
                       StageThrows("uploadToStorageBucket", BackendError(r, id),
                           tr \o <<[Progress("error", "Error uploading buffer")
                                      EXCEPT !.msg = r.msg]>>)
                  [] d.act = "return" ->
                       StageReturns("uploadToStorageBucket", r.val, id,
                           tr \o <<Progress("info", "File uploaded successfully")>>)
    /\ UNCHANGED <<args, twoCalls, toolVars, cloud, gateVars, runVars>>

\* Mutant of IsNotFound: every lookup error is taken as "absent".
IsNotFound_AnyError(code) == TRUE

\* `error.code === 5` in the catch block of ensureArtifactRegistryRepoExists.
IsNotFound(code) == code = NOT_FOUND

RepoGet ==
    /\ pc = "repo.get"
    /\ \E r \in {IF cloud.repo THEN Ok("repository")
                 ELSE Err(NOT_FOUND, <<"not found">>)} \cup Failures :
         LET id == Len(trace) + 1
             tr == trace \o Invocation("artifactRegistry.getRepository", r, {})
             d == callWithRetry(r, retries)
         IN  /\ Inject(r)
             /\ CASE d.act = "retry" -> Again(r, tr)
                  [] d.act = "return" ->
                       StageReturns("ensureArtifactRegistryRepoExists", r.val, id,
                           tr \o <<Progress("info", "Repository already exists")>>)
                  [] d.act = "throw" /\ IsNotFound(r.code) ->
                       Goto("repo.create",
                            tr \o <<Progress("info", "Repository does not exist. Creating...")>>)
                  [] d.act = "throw" /\ ~IsNotFound(r.code) ->
                       StageThrows("ensureArtifactRegistryRepoExists",
                           BackendError(r, id),
                           tr \o <<[Progress("error", "Error checking/creating repository")
                                      EXCEPT !.msg = r.msg]>>)
    /\ UNCHANGED <<args, twoCalls, toolVars, cloud, gateVars, runVars>>

RepoCreate ==
    /\ pc = "repo.create"
    /\ \E r \in {Ok("operation")} \cup Failures :
         LET id == Len(trace) + 1
             tr == trace \o Invocation("artifactRegistry.createRepository", r, {"DOCKER"})
             d == callWithRetry(r, retries)
         IN  /\ Inject(r)
             /\ CASE d.act = "retry" -> Again(r, tr)
                  [] d.act = "throw" ->
                       StageThrows("ensureArtifactRegistryRepoExists",
                                   BackendError(r, id), tr)
                  [] d.act = "return" ->
                       Goto("repo.operation",
                            tr \o <<Progress("info", "Creating Artifact Registry repository")>>)
    /\ UNCHANGED <<args, twoCalls, toolVars, cloud, gateVars, runVars>>

\* await operation.promise(): not under callWithRetry.
RepoOperation ==
    /\ pc = "repo.operation"
    /\ \E r \in {Ok("repository")} \cup Failures :
         LET id == Len(trace) + 1
             tr == trace \o <<Call("createRepository.operation", r, {})>>
         IN  /\ Inject(r)
             /\ IF r.ok
                THEN /\ StageReturns("ensureArtifactRegistryRepoExists", r.val, id,
                            tr \o <<Progress("info", "Artifact Registry repository created successfully")>>)
                     /\ cloud' = [cloud EXCEPT !.repo = TRUE]
                ELSE /\ StageThrows("ensureArtifactRegistryRepoExists",
                                    BackendError(r, id), tr)
                     /\ UNCHANGED cloud
    /\ UNCHANGED <<args, twoCalls, toolVars, gateVars, runVars>>

\* The provisioners on their own, called again and again with the same
\* arguments: the resource is there or not at first, and what one call
\* created is there for the next.
Provisioners == {"ensureStorageBucketExists", "ensureArtifactRegistryRepoExists"}

FirstSite(fn) ==
    IF fn = "ensureStorageBucketExists" THEN "bucket.exists" ELSE "repo.get"

CallsMade ==
    1 + Cardinality({i \in 1..Len(trace) :
                       trace[i].op = "enter" /\ trace[i].arg = entry})

\* The next call of the same function, after the last one is over.
ProvisionAgain ==
    /\ pc = "done"
    /\ CallsMade < MaxCalls
    /\ pc' = FirstSite(entry)
    /\ retries' = 0
    /\ trace' = trace \o <<Enter(entry, "again")>>
    /\ outcome' = NoOutcome
    /\ UNCHANGED <<faults, args, twoCalls, toolVars, cloud, gateVars, runVars>>

InitProvision ==
    /\ Idle
    /\ statuses = RunningStatuses
    /\ Direct
    /\ entry \in Provisioners
    /\ pc = FirstSite(entry)
    /\ faults = ProvisionFaults
    /\ cloud \in [apis : {NoCloud.apis}, bucket : BOOLEAN, repo : BOOLEAN]
    /\ apis = <<>>
    /\ files = "none"
    /\ items = <<>>
    /\ dockerfile = FALSE
    /\ skipIamCheck = FALSE

NextProvision ==
    \/ BucketExists
    \/ BucketCreate
    \/ RepoGet
    \/ RepoCreate
    \/ RepoOperation
    \/ ProvisionAgain

SpecProvision == InitProvision /\ [][NextProvision]_vars

----------------------------------------------------------------------------
(* triggerCloudBuild *)

TerminalStatuses ==
    {"SUCCESS", "FAILURE", "INTERNAL_ERROR", "TIMEOUT", "CANCELLED"}
\* Statuses the list of the poll loop does not hold: the two of a build under
\* way, one the list does not know, and "" for a response without a status.
OtherStatuses == {"EXPIRED", ""}
NonTerminalStatuses == RunningStatuses \cup OtherStatuses
\* What a log entry has as `data`: a line of text, or nothing.
NoData == "undefined"
LogData == {"step 1", "step 2", NoData}
BuildId == "build-1"
LogUrl == "logUrl"

\* Mutant of IsTerminal: CANCELLED left out of the list.
IsTerminal_NoCancelled(status) ==
    status \in {"SUCCESS", "FAILURE", "INTERNAL_ERROR", "TIMEOUT"}

\* Mutant of IsTerminal: whatever is not a status of a build under way ends
\* the loop.
IsTerminal_NotRunning(status) == status \notin {"QUEUED", "WORKING"}

\* The test of the poll loop.
IsTerminal(status) == status \in TerminalStatuses

Reverse(q) == [i \in 1..Len(q) |-> q[Len(q) + 1 - i]]

\* deploy: Dockerfile detection.  A single directory is looked into; in a
\* file list an item's base name decides.
SingleDirectory(fs) ==
    Len(fs) = 1 /\ fs[1].type = "string" /\ fs[1].exists /\ fs[1].isDir
\* `file.filename` is read from every item that is no string and whose typeof
\* is 'object': from null too, which throws.
DetectStops(fs) ==
    {i \in 1..Len(fs) :
       \/ fs[i].type = "string" /\ ToLowerCase(fs[i].base) = "dockerfile"
       \/ fs[i].type = "null"
       \/ /\ fs[i].type = "object" /\ fs[i].hasFilename
          /\ ToLowerCase(fs[i].base) = "dockerfile"}
\* Mutant of DetectDockerfile: base names are compared as they are written.
DetectDockerfile_CaseSensitive(fs) ==
    IF Len(fs) = 1 /\ fs[1].type = "string" /\ ~fs[1].exists THEN "ENOENT"
    ELSE IF SingleDirectory(fs)
    THEN IF {"Dockerfile", "dockerfile"} \cap fs[1].entries # {}
         THEN "true" ELSE "false"
    ELSE IF \E i \in 1..Len(fs) :
               fs[i].type \in {"string", "object"} /\ fs[i].base = "dockerfile"
    THEN "true" ELSE "false"
\* What detection yields: `hasDockerfile` as the progress event prints it, or
\* the error thrown: statSync on a single path nothing is at, the read of
\* `filename` from null.
DetectDockerfile(fs) ==
    IF Len(fs) = 1 /\ fs[1].type = "string" /\ ~fs[1].exists THEN "ENOENT"
    ELSE IF SingleDirectory(fs)
    THEN IF {"Dockerfile", "dockerfile"} \cap fs[1].entries # {}
         THEN "true" ELSE "false"
    ELSE LET stops == DetectStops(fs)
         IN  IF stops = {} THEN "false"
             ELSE LET first == CHOOSE i \in stops : \A j \in stops : i <= j
                  IN  IF fs[first].type = "null" THEN "TypeError" ELSE "true"

\* The `hasDockerfile` argument of triggerCloudBuild.
HasDockerfile ==
    IF entry = "triggerCloudBuild" THEN dockerfile
    ELSE DetectDockerfile(items) = "true"

\* Non-terminal statuses the build has reported so far.
Polls ==
    Len(SelectSeq(trace, LAMBDA e :
          e.op = "call" /\ e.arg = "cloudBuild.getBuild" /\ e.ok
            /\ e.val \in NonTerminalStatuses))

\* Mutant of DataOrEmpty: the data is taken as it is.
DataOrEmpty_AsIs(data) == data

\* `entry.data || ''`.
DataOrEmpty(data) == IF data = NoData THEN "" ELSE data

\* `${logLines.length}` in the snippet's heading.
CountLabel(n) ==
    CASE n = 0 -> "0" [] n = 1 -> "1" [] n = 2 -> "2" [] n = 3 -> "3"
      [] n = 4 -> "4" [] OTHER -> "more"

\* `entries.reverse().map((entry) => entry.data || '')`.
LogLines(entries) ==
    LET reversed == Reverse(entries)
    IN  [i \in 1..Len(reversed) |-> DataOrEmpty(reversed[i])]

\* The snippet of fetched lines: its heading, which states their number, and
\* the lines.
LogsSnippet(entries) ==
    LET logLines == LogLines(entries)
    IN  NewError("Build failed", BuildId,
                 <<"Last", CountLabel(Len(logLines)), "log lines from build">>,
                 logLines)

\* Mutant of BuildFailedError: a failed log fetch replaces the build failure.
BuildFailedError_LogError(r, id) ==
    IF r.ok /\ Len(r.list) > 0
    THEN LogsSnippet(r.list)
    ELSE IF r.ok THEN NewError("Build failed", BuildId, <<LogUrl>>, <<>>)
         ELSE BackendError(r, id)

\* The error triggerCloudBuild throws once the log fetch answered r: the
\* fetched lines, oldest first, or the default snippet with the log URL.
BuildFailedError(r, id) ==
    IF r.ok /\ Len(r.list) > 0
    THEN LogsSnippet(r.list)
    ELSE NewError("Build failed", BuildId, <<LogUrl>>, <<>>)

\* What the backend may answer to getBuild and getEntries.  Under deploy the
\* build is one stage of many and its answers are drawn from fewer values.
BuildStatuses ==
    IF Standalone
    THEN TerminalStatuses \cup (IF Polls < MaxPolls THEN statuses ELSE {})
    ELSE {"SUCCESS", "FAILURE"} \cup (IF Polls < 1 THEN {"WORKING"} ELSE {})

LogLists ==
    IF Standalone THEN SeqsUpTo(LogData, MaxLogEntries)
    ELSE {<<>>, <<"step 2", "step 1">>}

\* The `targetImageUrl` argument of triggerCloudBuild.
TargetImageUrl == "targetImageUrl"

\* Mutant of BuildSteps: buildpacks whatever was detected.
BuildSteps_AlwaysPack(hasDockerfile, targetImageUrl) ==
    <<[name |-> "gcr.io/k8s-skaffold/pack",
       args |-> <<"build", targetImageUrl, "--builder",
                  "gcr.io/buildpacks/builder:latest">>]>>

\* `buildSteps`: the docker build when a Dockerfile was detected, the
\* buildpacks build otherwise.
BuildSteps(hasDockerfile, targetImageUrl) ==
    IF hasDockerfile
    THEN <<[name |-> "gcr.io/cloud-builders/docker",
            args |-> <<"build", "-t", targetImageUrl, ".">>]>>
    ELSE <<[name |-> "gcr.io/k8s-skaffold/pack",
            args |-> <<"build", targetImageUrl, "--builder",
                       "gcr.io/buildpacks/builder:latest">>]>>

\* The steps of a build request as the flags of the createBuild call: the
\* builder images and the arguments of all the steps.
StepFlags(steps) ==
    UNION {{steps[k].name} \cup Range(steps[k].args) : k \in 1..Len(steps)}

BuildStart ==
    /\ pc = "build.start"
    /\ Goto("build.create",
            trace \o <<Enter("triggerCloudBuild", ""),
                       Progress("info", "Initiating Cloud Build")>>)
    /\ UNCHANGED <<faults, args, twoCalls, toolVars, cloud, gateVars, runVars>>

BuildCreate ==
    /\ pc = "build.create"
    /\ \E r \in {Ok(BuildId)} \cup Failures :
         LET steps == BuildSteps(HasDockerfile, TargetImageUrl)
             tr == trace \o Invocation("cloudBuild.createBuild", r, StepFlags(steps))
             d == callWithRetry(r, retries)
         IN  /\ Inject(r)
             /\ CASE d.act = "retry" -> Again(r, tr)
                  [] d.act = "throw" ->
                       StageThrows("triggerCloudBuild",
                                   BackendError(r, Len(trace) + 1), tr)
                  [] d.act = "return" ->
                       Goto("build.getBuild",
                            tr \o <<Progress("info", "Cloud Build job started...")>>)
    /\ UNCHANGED <<args, twoCalls, toolVars, cloud, gateVars, runVars>>

BuildGetBuild ==
    /\ pc = "build.getBuild"
    /\ \E r \in {Ok(st) : st \in BuildStatuses} \cup Failures :
         LET id == Len(trace) + 1
             tr == trace \o Invocation("cloudBuild.getBuild", r, {})
             d == callWithRetry(r, retries)
         IN  /\ Inject(r)
             /\ CASE d.act = "retry" -> Again(r, tr)
                  [] d.act = "throw" ->
                       StageThrows("triggerCloudBuild", BackendError(r, id), tr)
                  [] d.act = "return" /\ ~IsTerminal(r.val) ->
                       Goto("build.getBuild",
                            tr \o <<Progress("debug", "Build status. Waiting..."),
                                    Sleep("triggerCloudBuild.poll", BUILD_POLL_INTERVAL)>>)
                  [] d.act = "return" /\ IsTerminal(r.val) /\ r.val = "SUCCESS" ->
                       StageReturns("triggerCloudBuild", r.val, id,
                            tr \o <<Progress("info", "Cloud Build job completed successfully."),
                                    Progress("info", "Image built")>>)
                  [] d.act = "return" /\ IsTerminal(r.val) /\ r.val # "SUCCESS" ->
                       Goto("build.getEntries",
                            tr \o <<Progress("error", "Cloud Build job failed with status"),
                                    Progress("info", "Build logs"),
                                    Progress("debug", "Attempting to fetch last log lines"),
                                    Sleep("triggerCloudBuild.logs", DELAY_WAIT_FOR_BUILD_LOGS)>>)
    /\ UNCHANGED <<args, twoCalls, toolVars, cloud, gateVars, runVars>>

BuildGetEntries ==
    /\ pc = "build.getEntries"
    /\ \E r \in {OkList(l) : l \in LogLists} \cup Failures :
         LET id == Len(trace) + 1
             tr == trace \o Invocation("logging.getEntries", r, {})
             d == callWithRetry(r, retries)
             note == CASE ~r.ok ->
                            [Progress("warn", "Failed to fetch build logs snippet")
                               EXCEPT !.msg = r.msg]
                       [] r.ok /\ Len(r.list) > 0 ->
                            Progress("info", "Successfully fetched snippet of build logs")
                       [] OTHER ->
                            Progress("warn", "No specific log entries retrieved")
         IN  /\ Inject(r)
             /\ IF d.act = "retry"
                THEN Again(r, tr)
                ELSE StageThrows("triggerCloudBuild", BuildFailedError(r, id),
                                 tr \o <<note>>)
    /\ UNCHANGED <<args, twoCalls, toolVars, cloud, gateVars, runVars>>

InitBuild ==
    /\ Idle
    /\ statuses = RunningStatuses
    /\ Direct
    /\ entry = "triggerCloudBuild"
    /\ pc = "build.start"
    /\ faults = BuildFaults
    /\ cloud = NoCloud
    /\ apis = <<>>
    /\ files = "none"
    /\ items = <<>>
    /\ dockerfile \in BOOLEAN
    /\ skipIamCheck = FALSE

NextBuild ==
    \/ BuildStart
    \/ BuildCreate
    \/ BuildGetBuild
    \/ BuildGetEntries

SpecBuild == InitBuild /\ [][NextBuild]_vars

\* triggerCloudBuild against a backend whose build passes through the
\* statuses of a build under way, or through the other ones.  Each
\* step is the continuation of an awaited promise: the backend answers every
\* request and the timers of the two sleeps fire, so no step that is enabled
\* stays undone for ever.
InitPoll ==
    /\ Idle
    /\ Direct
    /\ statuses \in {RunningStatuses, OtherStatuses}
    /\ entry = "triggerCloudBuild"
    /\ pc = "build.start"
    /\ faults = PollFaults
    /\ cloud = NoCloud
    /\ apis = <<>>
    /\ files = "none"
    /\ items = <<>>
    /\ dockerfile \in BOOLEAN
    /\ skipIamCheck = FALSE

SpecPoll ==
    /\ InitPoll
    /\ [][NextBuild]_vars
    /\ WF_vars(BuildStart)
    /\ WF_vars(BuildCreate)
    /\ WF_vars(BuildGetBuild)
    /\ WF_vars(BuildGetEntries)

----------------------------------------------------------------------------
(* deployToCloudRun *)

ServiceId == "s"

\* Messages of dry-run errors, as token sequences; <<>> is an empty or absent
\* message.
DryRunMessages ==
    { <<>>,
      <<"Field", "invokerIamDisabled", "is not allowed">>,
      <<"INVOKERIAMDISABLED">>,
      <<"IAM Policy Violation">>,
      <<"quota exceeded">> }

DryRunFailures ==
    IF Standalone
    THEN {Err(c, m) : c \in {INVALID_ARGUMENT, PERMISSION_DENIED, 13},
                      m \in DryRunMessages}
    ELSE {Err(13, <<"Field", "invokerIamDisabled", "is not allowed">>),
          Err(13, <<"quota exceeded">>)}


\* message.toLowerCase().includes(needle)
LowerIncludes(msg, needle) ==
    \E i \in 1..Len(msg) : ToLowerCase(msg[i]) = needle

\* Mutant of IsInvokerRejection: the heuristic without its skipIamCheck test.
IsInvokerRejection_AnyCaller(skip, e) ==
    /\ e.msg # <<>>
    /\ \/ LowerIncludes(e.msg, "invokeriamdisabled")
       \/ LowerIncludes(e.msg, "iam policy violation")
       \/ e.code = INVALID_ARGUMENT

\* Mutant of IsInvokerRejection: the message test case-sensitive.
IsInvokerRejection_CaseSensitive(skip, e) ==
    /\ skip
    /\ e.msg # <<>>
    /\ \/ \E i \in 1..Len(e.msg) : e.msg[i] = "invokeriamdisabled"
       \/ \E i \in 1..Len(e.msg) : e.msg[i] = "iam policy violation"
       \/ e.code = INVALID_ARGUMENT

\* The heuristic of the dry-run catch block.
IsInvokerRejection(skip, e) ==
    /\ skip
    /\ e.msg # <<>>
    /\ \/ LowerIncludes(e.msg, "invokeriamdisabled")
       \/ LowerIncludes(e.msg, "iam policy violation")
       \/ e.code = INVALID_ARGUMENT

\* `template.revision` of the payload: the name made at the start of the
\* call from the service identifier and the clock reading.
RevisionLabel(t) ==
    CASE t = 0 -> "revision:serviceId-0"
      [] t = 1 -> "revision:serviceId-1"
      [] t = 2 -> "revision:serviceId-2"
      [] t = 3 -> "revision:serviceId-3"
      [] OTHER -> "revision:serviceId-later"

\* Mutant of Payload: the bypass flag is sent whenever it was requested.
Payload_FlagAsRequested(svc) ==
    (IF skipIamCheck THEN {"invokerIamDisabled"} ELSE {})
      \cup (IF svc.name THEN {"name"} ELSE {})
      \cup {svc.image, RevisionLabel(svc.revision)}

\* The fields of a service payload that vary, as flags of the call.
Payload(svc) ==
    (IF svc.invokerIamDisabled THEN {"invokerIamDisabled"} ELSE {})
      \cup (IF svc.name THEN {"name"} ELSE {})
      \cup {svc.image, RevisionLabel(svc.revision)}

\* Mutant of DryRunServiceConfig: the copy is given a revision name of its own.
DryRunServiceConfig_OwnRevision ==
    [service EXCEPT !.name = exists, !.revision = service.revision + 1]

\* JSON.parse(JSON.stringify(service)), then `name` set in the update branch.
DryRunServiceConfig == [service EXCEPT !.name = exists]

\* Mutant of DryRunRequest: the dry run is sent as a real request.
DryRunRequest_Real(payload) == payload
\* The request of the dry run: the payload and `validateOnly: true`.
DryRunRequest(payload) == payload \cup {"validateOnly"}

\* Mutant of Mutation: the branches swapped.
Mutation_Swapped == IF exists THEN "run.createService" ELSE "run.updateService"

\* Mutant of Mutation: the dry run always validates a creation.
Mutation_DryRunCreates ==
    IF exists /\ pc # "run.dryRun" THEN "run.updateService" ELSE "run.createService"

Mutation == IF exists THEN "run.updateService" ELSE "run.createService"

\* The outer catch block: report, rethrow.
RunThrows(e, tr) ==
    StageThrows("deployToCloudRun", e,
        tr \o <<[Progress("error", "Error deploying/updating service")
                   EXCEPT !.msg = e.msg]>>)

\* Mutant of ImgUrl: deployImage passes the image name deploy derives.
ImgUrl_Derived ==
    IF entry \in {"deploy", "deployImage"} THEN "image:builtImageUrl"
    ELSE "image:imgUrl"

\* The `imgUrl` argument of deployToCloudRun: the caller's imageUrl under
\* deployImage, the name of the built image under deploy.
ImgUrl ==
    CASE entry = "deployImage" -> "image:imageUrl"
      [] entry = "deploy" -> "image:builtImageUrl"
      [] OTHER -> "image:imgUrl"

RunStart ==
    /\ pc = "run.start"
    /\ service' = [invokerIamDisabled |-> skipIamCheck, name |-> FALSE,
                   image |-> ImgUrl, revision |-> now]
    /\ exists' = exists
    /\ Goto("run.exists", trace \o <<Enter("deployToCloudRun", ServiceId)>>)
    /\ UNCHANGED <<faults, args, twoCalls, toolVars, cloud, gateVars>>

\* checkCloudRunServiceExists
RunExists ==
    /\ pc = "run.exists"
    /\ \E r \in {Ok("exists"), Ok("absent")} \cup Failures :
         LET id == Len(trace) + 1
             tr == trace \o Invocation("run.getService", r, {})
             d == callWithRetry(r, retries)
         IN  /\ Inject(r)
             /\ CASE d.act = "retry" -> Again(r, tr) /\ exists' = exists
                  [] d.act = "throw" ->
                       RunThrows(BackendError(r, id), tr) /\ exists' = exists
                  [] d.act = "return" ->
                       /\ exists' = (r.val = "exists")
                       /\ Goto("run.dryRun",
                               tr \o <<Progress("debug", "Performing dry run")>>)
    /\ UNCHANGED <<args, twoCalls, toolVars, cloud, gateVars, service>>

RunDryRun ==
    /\ pc = "run.dryRun"
    /\ \E r \in {Ok("validated")} \cup DryRunFailures :
         LET id == Len(trace) + 1
             tr == trace \o Invocation(Mutation, r,
                       DryRunRequest(Payload(DryRunServiceConfig)))
             d == callWithRetry(r, retries)
             e == BackendError(r, id)
             announce == Progress("info", IF exists THEN "Updating existing service"
                                                     ELSE "Creating new service")
             warned == tr \o <<[Progress("warn", "Dry run failed")
                                  EXCEPT !.msg = e.msg, !.n = e.code]>>
         IN  /\ Inject(r)
             /\ CASE d.act = "retry" -> Again(r, tr) /\ service' = service
                  [] d.act = "return" ->
                       /\ Goto("run.mutate",
                               tr \o <<Progress("debug", "Dry run successful"),
                                       announce>>)
                       /\ service' = [service EXCEPT !.name = exists]
                  [] d.act = "throw" /\ IsInvokerRejection(skipIamCheck, e) ->
                       /\ Goto("run.mutate",
                               warned \o <<Progress("warn", "Attempting deployment without invokerIamDisabled"),
                                           announce>>)
                       /\ service' = [service EXCEPT !.invokerIamDisabled = FALSE,
                                                     !.name = exists]
                  [] d.act = "throw" /\ ~IsInvokerRejection(skipIamCheck, e) ->
                       /\ RunThrows(NewError("Dry run validation failed for service",
                                             ServiceId, e.msg, <<>>),
                                    warned \o <<[Progress("error", "Dry run validation failed for service")
                                                   EXCEPT !.msg = e.msg]>>)
                       /\ service' = service
    /\ UNCHANGED <<args, twoCalls, toolVars, cloud, gateVars, exists>>

RunMutate ==
    /\ pc = "run.mutate"
    /\ \E r \in {Ok("operation")} \cup Failures :
         LET id == Len(trace) + 1
             tr == trace \o Invocation(Mutation, r, Payload(service))
             d == callWithRetry(r, retries)
         IN  /\ Inject(r)
             /\ CASE d.act = "retry" -> Again(r, tr)
                  [] d.act = "throw" -> RunThrows(BackendError(r, id), tr)
                  [] d.act = "return" ->
                       Goto("run.operation",
                            tr \o <<Progress("info", "Deploying to Cloud Run")>>)
    /\ UNCHANGED <<args, twoCalls, toolVars, cloud, gateVars, runVars>>

\* await operation.promise(): not under callWithRetry.
RunOperation ==
    /\ pc = "run.operation"
    /\ \E r \in {Ok("service")} \cup Failures :
         LET id == Len(trace) + 1
             tr == trace \o <<Call("run.operation", r, {Mutation})>>
         IN  /\ Inject(r)
             /\ IF r.ok
                THEN StageReturns("deployToCloudRun", r.val, id,
                         tr \o <<Progress("info", "Service deployed/updated successfully")>>)
                ELSE RunThrows(BackendError(r, id), tr)
    /\ UNCHANGED <<args, twoCalls, toolVars, cloud, gateVars, runVars>>

InitRun ==
    /\ Idle
    /\ statuses = RunningStatuses
    /\ Direct
    /\ entry = "deployToCloudRun"
    /\ pc = "run.start"
    /\ faults = RunFaults
    /\ cloud = NoCloud
    /\ apis = <<>>
    /\ files = "none"
    /\ items = <<>>
    /\ dockerfile = FALSE
    /\ skipIamCheck \in BOOLEAN

NextRun ==
    \/ RunStart
    \/ RunExists
    \/ RunDryRun
    \/ RunMutate
    \/ RunOperation

SpecRun == InitRun /\ [][NextRun]_vars

----------------------------------------------------------------------------
(* deploy and deployImage *)

FileInputs == {"directory", "missingPath", "fileList", "invalidItem"}
\* The items each of them stands for; d: a Dockerfile is among them.
ItemsOf(f, d) ==
    CASE f = "directory" ->
           <<Directory("app", IF d THEN {"Dockerfile"} ELSE {})>>
      [] f = "missingPath" -> <<Missing("/srv", "app")>>
      [] f = "fileList" ->
           <<File("index.js"),
             Content(IF d THEN "Dockerfile" ELSE "package.json", "text")>>
      [] f = "invalidItem" -> <<File("index.js"), NumberItem>>
      [] OTHER -> <<>>

\* A project nothing was deployed to yet, and one that was deployed to.
FreshProject ==
    [apis |-> [a \in ApiNames |-> "DISABLED"], bucket |-> FALSE, repo |-> FALSE]
UsedProject ==
    [apis |-> [a \in ApiNames |-> "ENABLED"], bucket |-> TRUE, repo |-> TRUE]

\* `!files || !Array.isArray(files) || files.length === 0`
InvalidFiles == {"missing", "nonArray", "empty"}

\* Mutant of Validation: the service name is not checked.
Validation_NoServiceName(required) ==
    CASE ~config.projectId ->
           "Error: projectId is required in the configuration object."
      [] config.projectId /\ required = "files" /\ files \in InvalidFiles ->
           "Error: files array is required in the configuration object."
      [] config.projectId /\ required = "imageUrl" /\ ~config.imageUrl ->
           "Error: imageUrl is required in the configuration object."
      [] OTHER -> ""

\* The checks deploy and deployImage open with, in code order: the message
\* of the first that fails, "" when the request passes.  `required` is the
\* third field checked: "files" in deploy, "imageUrl" in deployImage.
Validation(required) ==
    CASE ~config.projectId ->
           "Error: projectId is required in the configuration object."
      [] config.projectId /\ ~config.serviceName ->
           "Error: serviceName is required in the configuration object."
      [] config.projectId /\ config.serviceName
           /\ required = "files" /\ files \in InvalidFiles ->
           "Error: files array is required in the configuration object."
      [] config.projectId /\ config.serviceName
           /\ required = "imageUrl" /\ ~config.imageUrl ->
           "Error: imageUrl is required in the configuration object."
      [] OTHER -> ""

\* Mutant of ExitsOnInvalid: the process is never terminated.
ExitsOnInvalid_Never(required) == FALSE

\* `typeof process !== 'undefined' && process.exit`, asked only when the
\* third field fails.
ExitsOnInvalid(required) ==
    /\ config.projectId /\ config.serviceName
    /\ canExit

\* The start of deploy and of deployImage, up to the first await on the
\* backend: a request that fails a check is reported in one error event and
\* ends the call, by process.exit(1) or by a thrown error; for one that
\* passes, the backend clients are created and the gate is called.
Start(required) ==
    LET bad == Validation(required)
        tr == trace \o <<[Progress("error", bad) EXCEPT !.msg = <<bad>>]>>
    IN  IF bad = ""
        THEN Goto("gate.start", trace \o <<Event("clients", entry)>>)
        ELSE IF ExitsOnInvalid(required)
        THEN Finish(Exited(1), tr)
        ELSE Finish(Thrown(NewError(bad, "", <<>>, <<>>)), tr)

DeployStart ==
    /\ pc = "deploy.start"
    /\ Start("files")
    /\ UNCHANGED <<faults, args, twoCalls, toolVars, cloud, gateVars, runVars>>

DeployImageStart ==
    /\ pc = "deployImage.start"
    /\ Start("imageUrl")
    /\ UNCHANGED <<faults, args, twoCalls, toolVars, cloud, gateVars, runVars>>

\* deploy between the gate and the bucket: Dockerfile detection.  statSync
\* throws for a single path that does not exist.
DeployDetect ==
    /\ pc = "deploy.detect"
    /\ LET tr == trace \o <<Progress("info", "Project"), Progress("info", "Region"),
                            Progress("info", "Service Name"),
                            Progress("info", "Files to deploy")>>
           hasDockerfile == DetectDockerfile(items)
       IN  CASE hasDockerfile = "ENOENT" ->
                  StageThrows("statSync",
                      NewError("ENOENT", "", <<"no such file or directory">>, <<>>),
                      tr)
             [] hasDockerfile = "TypeError" ->
                  StageThrows("detect",
                      NewError("TypeError", "",
                               <<"Cannot read properties of null">>, <<>>), tr)
             [] OTHER ->
                  Goto("bucket.exists",
                       tr \o <<[Progress("info", "Dockerfile")
                                  EXCEPT !.msg = <<hasDockerfile>>]>>)
    /\ UNCHANGED <<faults, args, twoCalls, toolVars, cloud, gateVars, runVars>>

\* Requests that fail a check: a field of the three is not given, with and
\* without process.exit.
BadConfigs ==
    {c \in [projectId : BOOLEAN, serviceName : BOOLEAN, imageUrl : BOOLEAN] :
       ~(c.projectId /\ c.serviceName /\ c.imageUrl)}

ValidRequest ==
    /\ config = FullConfig
    /\ canExit = TRUE
    /\ cloud \in {FreshProject, UsedProject}
    /\ skipIamCheck \in BOOLEAN
    /\ \/ /\ entry = "deploy"
          /\ pc = "deploy.start"
          /\ apis = REQUIRED_APIS_FOR_SOURCE_DEPLOY
          /\ files \in FileInputs
          /\ dockerfile \in BOOLEAN
       \/ /\ entry = "deployImage"
          /\ pc = "deployImage.start"
          /\ apis = REQUIRED_APIS_FOR_IMAGE_DEPLOY
          /\ files = "none"
          /\ dockerfile = FALSE

InvalidRequest ==
    /\ canExit \in BOOLEAN
    /\ cloud = UsedProject
    /\ skipIamCheck = FALSE
    /\ dockerfile = FALSE
    /\ \/ /\ entry = "deploy"
          /\ pc = "deploy.start"
          /\ apis = REQUIRED_APIS_FOR_SOURCE_DEPLOY
          /\ \/ /\ config \in BadConfigs
                /\ ~(config.projectId /\ config.serviceName)
                /\ files \in InvalidFiles \cup {"directory"}
             \/ config = FullConfig /\ files \in InvalidFiles
       \/ /\ entry = "deployImage"
          /\ pc = "deployImage.start"
          /\ apis = REQUIRED_APIS_FOR_IMAGE_DEPLOY
          /\ files = "none"
          /\ config \in BadConfigs

Init ==
    /\ Idle
    /\ statuses = RunningStatuses
    /\ NoToolCall
    /\ faults = PipelineFaults
    /\ ValidRequest \/ InvalidRequest
    /\ items = ItemsOf(files, dockerfile)

Next ==
    \/ DeployStart
    \/ DeployImageStart
    \/ GateStart
    \/ GateGetService
    \/ GateEnableService
    \/ GateOperation
    \/ DeployDetect
    \/ BucketExists
    \/ BucketCreate
    \/ ZipFiles
    \/ UploadSave
    \/ RepoGet
    \/ RepoCreate
    \/ RepoOperation
    \/ BuildStart
    \/ BuildCreate
    \/ BuildGetBuild
    \/ BuildGetEntries
    \/ RunStart
    \/ RunExists
    \/ RunDryRun
    \/ RunMutate
    \/ RunOperation

Spec == Init /\ [][Next]_vars

----------------------------------------------------------------------------
(* deploy up to the upload, and zipFiles alone, on every short file list *)

\* Items of every kind the two item loops tell apart: paths to files, to
\* directories and to nothing, objects with and without `filename` and
\* `content`, null and a number.
FileItems ==
    {File(n) : n \in {"Dockerfile", "DOCKERFILE", "index.js"}}
      \cup {Directory("app", e) :
              e \in {{}, {"Dockerfile"}, {"dockerfile"}, {"DOCKERFILE"}}}
      \cup {Directory("dockerfile", {}), Missing("/srv", "app"), Missing("/c", "app")}
      \cup {Content(n, "text") : n \in {"Dockerfile", "DOCKERFILE", "index.js"}}
      \cup {Content("index.js", ""), ObjectItem("index.js", TRUE, FALSE, ""),
            ObjectItem("", FALSE, TRUE, "text"), NullItem, NumberItem}
FileLists == UNION {[1..n -> FileItems] : n \in 1..MaxItems}

InitFiles ==
    /\ Idle
    /\ statuses = RunningStatuses
    /\ Direct
    /\ entry \in {"deploy", "zipFiles"}
    /\ pc = IF entry = "deploy" THEN "deploy.start" ELSE "zip"
    /\ faults = IF entry = "deploy" THEN 0 ELSE ZipFaults
    /\ cloud = UsedProject
    /\ apis = REQUIRED_APIS_FOR_SOURCE_DEPLOY
    /\ files = "array"
    /\ dockerfile = FALSE
    /\ skipIamCheck = FALSE
    /\ items \in FileLists

NextFiles ==
    \/ DeployStart
    \/ GateStart
    \/ GateGetService
    \/ DeployDetect
    \/ BucketExists
    \/ ZipFiles
    \/ UploadSave

SpecFiles == InitFiles /\ [][NextFiles]_vars

----------------------------------------------------------------------------
(* The tool handlers *)

\* The names registerTools and registerToolsRemote hand to
\* server.registerTool, in the order of the calls.
registerTools ==
    <<"list_projects", "create_project", "list_services", "get_service",
      "get_service_log", "deploy_local_folder", "deploy_file_contents",
      "deploy_container_image">>
registerToolsRemote ==
    <<"list_services", "get_service", "get_service_log", "deploy_file_contents",
      "deploy_container_image">>
Registrations ==
    {[by |-> "registerTools", names |-> registerTools],
     [by |-> "registerToolsRemote", names |-> registerToolsRemote]}

Tools ==
    {"list_projects", "create_project", "list_services", "get_service",
     "get_service_log", "deploy_local_folder", "deploy_file_contents",
     "deploy_container_image"}
DeployTools ==
    {"deploy_local_folder", "deploy_file_contents", "deploy_container_image"}
\* The function a tool with a single backend request calls.
FunctionOf(t) ==
    CASE t = "list_projects" -> "listProjects"
      [] t = "create_project" -> "createProjectAndAttachBilling"
      [] t = "list_services" -> "listServices"
      [] t = "get_service" -> "getService"
      [] OTHER -> ""

\* What a handler resolves with (one text item) or throws.
Text(t) == [kind |-> "text", text |-> t]
Throws(t) == [kind |-> "thrown", text |-> t]
NO_CREDENTIALS ==
    "GCP credentials are not available. Please configure your environment."

\* Mutant of gcpTool: the handler is registered whatever the credentials.
gcpTool_Always(available, fn) == fn
\* gcpTool: the handler that is registered for a tool.
gcpTool(available, fn) == IF ~available THEN "noCredentials" ELSE fn

\* Mutant of createProgressCallback: the event's level is passed as it is.
createProgressCallback_NoDefault(progress) ==
    [method |-> "notifications/message", level |-> progress.val,
     data |-> <<progress.arg>> \o progress.msg]
\* createProgressCallback: the notification sent for a progress event.
createProgressCallback(progress) ==
    [method |-> "notifications/message",
     level |-> IF progress.val = "" THEN "info" ELSE progress.val,
     data |-> <<progress.arg>> \o progress.msg]
\* The notifications sent so far: the callback given to deploy and to
\* deployImage is createProgressCallback(sendNotification), and the handler
\* calls it for its own event.
Notifications ==
    LET events == SelectSeq(trace, LAMBDA e : e.op = "progress")
    IN  [k \in 1..Len(events) |-> createProgressCallback(events[k])]

\* `!file.content` on the items of deploy_file_contents: reading `content`
\* from null throws.
NoContentIdx ==
    {i \in 1..Len(items) :
       \/ items[i].type = "null"
       \/ ~items[i].hasContent
       \/ items[i].content = ""}
ContentCheck ==
    IF NoContentIdx = {} THEN ""
    ELSE LET first == CHOOSE i \in NoContentIdx : \A j \in NoContentIdx : i <= j
         IN  IF items[first].type = "null" THEN "TypeError"
             ELSE "File must have content"

\* The checks a handler makes on its input before it calls anything: the
\* message of the first that fails, "" when all pass.
InputError(t) ==
    CASE t = "create_project" ->
           IF input.project = ""
           THEN "Error: If provided, Project ID must be a non-empty string."
           ELSE ""
      [] t = "list_services" ->
           IF input.project = "undefined"
           THEN "Error: Project ID must be provided and be a non-empty string."
           ELSE ""
      [] t = "get_service" ->
           IF input.project = "undefined" THEN "Error: Project ID must be provided."
           ELSE IF input.service = "undefined"
           THEN "Error: Service name must be provided."
           ELSE ""
      [] t = "deploy_local_folder" ->
           IF input.project = "undefined" THEN "Project must be specified"
           ELSE IF input.folderPath \in {"undefined", ""}
           THEN "Folder path must be specified and be a non-empty string."
           ELSE ""
      [] t = "deploy_file_contents" ->
           IF input.project = "undefined" THEN "Project must specified"
           ELSE IF input.files = "undefined" THEN "Files must be specified"
           ELSE IF input.files = "empty" THEN "No files specified for deployment"
           ELSE ContentCheck
      [] t = "deploy_container_image" ->
           IF input.project = "undefined" THEN "Project must specified"
           ELSE IF input.imageUrl \in {"undefined", ""}
           THEN "Container image URL must be specified and be a non-empty string."
           ELSE ""
      [] OTHER -> ""

\* The handler's own progress event: it has data and no level.
OwnStart(t) ==
    CASE t = "deploy_local_folder" ->
           <<Progress("", "Starting deployment of local folder")>>
      [] t = "deploy_file_contents" ->
           <<Progress("", "Starting deployment of file contents")>>
      [] OTHER -> <<>>

\* The call of a tool's handler, up to its first await.
ToolStart ==
    /\ pc = "tool.start"
    /\ LET handler == gcpTool(gcpCredentialsAvailable, tool)
           bad == InputError(tool)
       IN  IF handler = "noCredentials"
           THEN /\ result' = Text(<<NO_CREDENTIALS>>)
                /\ pc' = "tool.done"
                /\ trace' = trace
           ELSE IF bad # ""
           THEN /\ result' = IF tool \in DeployTools THEN Throws(<<bad>>)
                             ELSE Text(<<bad>>)
                /\ pc' = "tool.done"
                /\ trace' = trace
           ELSE /\ result' = result
                /\ pc' = CASE tool = "deploy_container_image" -> "deployImage.start"
                           [] tool \in DeployTools -> "deploy.start"
                           [] tool = "get_service_log" -> "tool.logs"
                           [] OTHER -> "tool.call"
                /\ trace' = trace \o OwnStart(tool)
    /\ UNCHANGED <<retries, faults, outcome, args, twoCalls, tool,
                   gcpCredentialsAvailable, input, allLogs, requestOptions, registered,
                   cloud, gateVars, runVars>>

\* list_projects, create_project, list_services, get_service: one request,
\* whose answer or error becomes the text.  getService may find nothing.
ToolCall ==
    /\ pc = "tool.call"
    /\ \E r \in {Ok("found"), Ok(""), Err(13, <<"internal">>)} :
         /\ Inject(r)
         /\ r.val = "" => tool = "get_service"
         /\ trace' = trace \o <<Call(FunctionOf(tool), r, {})>>
         /\ result' = IF ~r.ok THEN Text(<<"Error", FunctionOf(tool)>> \o r.msg)
                      ELSE IF r.val = "" THEN Text(<<"Service not found">>)
                      ELSE Text(<<FunctionOf(tool), r.val>>)
         /\ pc' = "tool.done"
    /\ UNCHANGED <<retries, outcome, args, twoCalls, tool, gcpCredentialsAvailable,
                   input, allLogs, requestOptions, registered, cloud, gateVars, runVars>>

\* A page of logs: its `logs`, possibly empty, and its `requestOptions`,
\* absent on the last page the backend has.
Logs == {"", "log1 log2", "log3 log4"}
PageTokens == {"pageToken 1", "pageToken 2"}
LogPage(logs, next) == [Ok(logs) EXCEPT !.list = next]
LogPages(fetched) ==
    {LogPage(l, <<>>) : l \in Logs}
      \cup IF fetched + 1 < MaxPages
           THEN {LogPage(l, <<t>>) : l \in Logs, t \in PageTokens}
           ELSE {}
\* Mutant of PushLogs: the logs of every page are kept.
PushLogs_Always(all, logs) == Append(all, logs)
\* `if (response.logs) allLogs.push(response.logs)`
PushLogs(all, logs) == IF logs # "" THEN Append(all, logs) ELSE all
\* Array.prototype.join('\n')
RECURSIVE Join(_)
Join(q) ==
    IF Len(q) <= 1 THEN q ELSE <<Head(q), "\n">> \o Join(Tail(q))
PagesFetched ==
    Len(SelectSeq(trace, LAMBDA e : e.op = "call" /\ e.arg = "getServiceLogs"))

\* get_service_log: one turn of the do-while loop.
ToolLogs ==
    /\ pc = "tool.logs"
    /\ \E r \in LogPages(PagesFetched) \cup {Err(13, <<"internal">>)} :
         /\ Inject(r)
         /\ trace' = trace \o
               <<Call("getServiceLogs", r,
                      IF requestOptions = "" THEN {} ELSE {requestOptions})>>
         /\ IF ~r.ok
            THEN /\ result' = Text(<<"Error getting Logs for service">> \o r.msg)
                 /\ pc' = "tool.done"
                 /\ UNCHANGED <<allLogs, requestOptions>>
            ELSE /\ allLogs' = PushLogs(allLogs, r.val)
                 /\ requestOptions' = IF r.list = <<>> THEN "" ELSE r.list[1]
                 /\ IF r.list = <<>>
                    THEN result' = Text(Join(allLogs')) /\ pc' = "tool.done"
                    ELSE result' = result /\ pc' = pc
    /\ UNCHANGED <<retries, outcome, args, twoCalls, tool, gcpCredentialsAvailable,
                   input, registered, cloud, gateVars, runVars>>

\* The deploy tools after deploy or deployImage has returned or thrown:
\* the try block returns the success text, the catch block the error text.
\* Mutant of ToolFinish: the handler has no catch block.
ToolFinish_NoCatch ==
    /\ pc = "done"
    /\ tool \in DeployTools
    /\ outcome.kind \in {"returned", "thrown"}
    /\ pc' = "tool.done"
    /\ result' =
         IF outcome.kind = "returned"
         THEN Text(<<"Cloud Run service deployed", outcome.val>>)
         ELSE Throws(Message(outcome.err))
    /\ UNCHANGED <<retries, faults, trace, outcome, args, twoCalls, tool,
                   gcpCredentialsAvailable, input, allLogs, requestOptions, registered,
                   cloud, gateVars, runVars>>

\* deploy / deployImage has returned or thrown: the handler's return
\* statement, or its catch block.
ToolFinish ==
    /\ pc = "done"
    /\ tool \in DeployTools
    /\ outcome.kind \in {"returned", "thrown"}
    /\ pc' = "tool.done"
    /\ result' =
         IF outcome.kind = "returned"
         THEN Text(<<"Cloud Run service deployed", outcome.val>>)
         ELSE Text(<<IF tool = "deploy_local_folder"
                     THEN "Error deploying folder to Cloud Run"
                     ELSE "Error deploying to Cloud Run">>
                   \o Message(outcome.err))
    /\ UNCHANGED <<retries, faults, trace, outcome, args, twoCalls, tool,
                   gcpCredentialsAvailable, input, allLogs, requestOptions, registered,
                   cloud, gateVars, runVars>>

\* The inputs a handler may be called with: each field it reads is missing,
\* empty or given.
Inputs(t) ==
    {i \in [project : {"undefined", "", "p"}, service : {"undefined", "s"},
            folderPath : {"undefined", "", "/srv/app"},
            files : {"undefined", "empty", "array"},
            imageUrl : {"undefined", "", "img"}] :
       /\ t \in {"list_projects", "create_project", "list_services"}
            => i.service = "undefined"
       /\ t = "list_projects" => i.project = "undefined"
       /\ t # "deploy_local_folder" => i.folderPath = "undefined"
       /\ t # "deploy_file_contents" => i.files = "undefined"
       /\ t # "deploy_container_image" => i.imageUrl = "undefined"}
\* The items of deploy_file_contents.
ContentItems ==
    {Content("index.js", "text"), Content("Dockerfile", "text"),
     Content("index.js", ""), ObjectItem("index.js", TRUE, FALSE, "")}
\* The `files` that deploy gets from the handler.
ToolItems(t, i) ==
    CASE t = "deploy_local_folder" /\ i.folderPath = "/srv/app" ->
           {<<Directory("app", {})>>, <<Directory("app", {"Dockerfile"})>>,
            <<Missing("/srv", "app")>>}
      [] t = "deploy_file_contents" /\ i.files = "array" ->
           UNION {[1..n -> ContentItems] : n \in 1..MaxItems}
      [] OTHER -> {<<>>}

InitTools ==
    /\ Idle
    /\ statuses = RunningStatuses
    /\ registered \in Registrations
    /\ tool \in Range(registered.names)
    /\ gcpCredentialsAvailable \in BOOLEAN
    /\ input \in Inputs(tool)
    /\ result = NoResult
    /\ allLogs = <<>>
    /\ requestOptions = ""
    /\ pc = "tool.start"
    /\ entry = CASE tool = "deploy_container_image" -> "deployImage"
                 [] tool \in DeployTools -> "deploy"
                 [] OTHER -> tool
    /\ config = [projectId |-> input.project = "p",
                 serviceName |-> input.service = "s",
                 imageUrl |-> tool # "deploy_container_image" \/ input.imageUrl = "img"]
    /\ canExit = TRUE
    /\ faults = ToolFaults
    /\ cloud \in {FreshProject, UsedProject}
    /\ apis = IF tool = "deploy_container_image"
              THEN REQUIRED_APIS_FOR_IMAGE_DEPLOY
              ELSE REQUIRED_APIS_FOR_SOURCE_DEPLOY
    /\ files = IF tool \in DeployTools \ {"deploy_container_image"}
               THEN "array" ELSE "none"
    /\ dockerfile = FALSE
    /\ skipIamCheck \in BOOLEAN
    /\ items \in ToolItems(tool, input)

NextTools ==
    \/ ToolStart
    \/ ToolCall
    \/ ToolLogs
    \/ ToolFinish
    \/ Next

SpecTools == InitTools /\ [][NextTools]_vars

----------------------------------------------------------------------------
(* Two deploy calls in flight at the same time *)

Projects == {"p", "q"}
ServiceNames == {"s", "t"}
Region == "r"
CallerIds == {1, 2}

\* Derived names.
BucketName(projectId) == <<projectId, "-source-bucket">>
ImageUrl(region, projectId, serviceName) ==
    <<region, "-docker.pkg.dev", projectId, REPO_NAME, serviceName, IMAGE_TAG>>
\* `${serviceId}-${Date.now()}`
RevisionName(serviceId, t) == <<serviceId, t>>

\* The `files` of caller c: every call brings files of its own.
FilesOf(c) == <<"files of call", c>>
NoContent == <<"none", 0>>
NoRevision == RevisionName("", 0)

ObjectKeys == {<<BucketName(p), ZIP_FILE_NAME>> : p \in Projects}
ImageKeys == {ImageUrl(Region, p, sv) : p \in Projects, sv \in ServiceNames}
ServiceKeys == Projects \X ServiceNames

Caller(c) == callers[c]
BucketOf(c) == BucketName(Caller(c).projectId)
ImageOf(c) == ImageUrl(Region, Caller(c).projectId, Caller(c).serviceName)

\* uploadToStorageBucket(context, bucket, zipBuffer, ZIP_FILE_NAME): the
\* archive of the caller's files replaces the object of that name.
CallUpload(c) ==
    /\ Caller(c).pc = "upload"
    /\ shared' = [shared EXCEPT !.objects[<<BucketOf(c), ZIP_FILE_NAME>>] = FilesOf(c)]
    /\ callers' = [callers EXCEPT ![c].pc = "build"]
    /\ UNCHANGED now

\* triggerCloudBuild(..., bucketName, ZIP_FILE_NAME, ..., imageUrl, ...): the
\* build takes the object that is in the bucket under that name and pushes
\* the image built from it under the caller's image name.
CallBuild(c) ==
    /\ Caller(c).pc = "build"
    /\ LET source == shared.objects[<<BucketOf(c), ZIP_FILE_NAME>>]
       IN  /\ shared' = [shared EXCEPT !.images[ImageOf(c)] = source]
           /\ callers' = [callers EXCEPT ![c].pc = "deployToCloudRun",
                                         ![c].built = source]
    /\ UNCHANGED now

\* deployToCloudRun up to its first await: the revision name is made of the
\* service id and the clock.
CallRevision(c) ==
    /\ Caller(c).pc = "deployToCloudRun"
    /\ callers' = [callers EXCEPT
                     ![c].pc = "mutate",
                     ![c].revision = RevisionName(Caller(c).serviceName, now)]
    /\ UNCHANGED <<now, shared>>

\* createService / updateService: the service runs the image its payload
\* names, under the revision name of the payload.
CallMutate(c) ==
    /\ Caller(c).pc = "mutate"
    /\ shared' = [shared EXCEPT
                    !.services[<<Caller(c).projectId, Caller(c).serviceName>>] =
                       shared.images[ImageOf(c)],
                    !.revisions = Append(@, Caller(c).revision)]
    /\ callers' = [callers EXCEPT ![c].pc = "done",
                                  ![c].deployed = shared.images[ImageOf(c)]]
    /\ UNCHANGED now

\* A millisecond passes.
Tick ==
    /\ now < MaxClock
    /\ now' = now + 1
    /\ UNCHANGED <<callers, shared>>

InitTwoCalls ==
    /\ entry = "deploy"
    /\ Direct
    /\ statuses = RunningStatuses
    /\ pc = "done"
    /\ retries = 0
    /\ faults = 0
    /\ trace = <<>>
    /\ outcome = NoOutcome
    /\ cloud = NoCloud
    /\ apis = <<>>
    /\ apiIdx = 0
    /\ attempt = 0
    /\ files = "directory"
    /\ dockerfile = FALSE
    /\ items = ItemsOf(files, dockerfile)
    /\ skipIamCheck = FALSE
    /\ exists = FALSE
    /\ service = NoService
    /\ now = 0
    /\ callers \in [CallerIds ->
                      [pc : {"upload"}, projectId : Projects,
                       serviceName : ServiceNames, built : {NoContent},
                       revision : {NoRevision}, deployed : {NoContent}]]
    /\ shared = [objects |-> [k \in ObjectKeys |-> NoContent],
                 images |-> [k \in ImageKeys |-> NoContent],
                 services |-> [k \in ServiceKeys |-> NoContent],
                 revisions |-> <<>>]

NextTwoCalls ==
    \/ Tick /\ UNCHANGED <<ctl, args, toolVars, cloud, gateVars, runVars>>
    \/ \E c \in CallerIds :
         /\ \/ CallUpload(c)
            \/ CallBuild(c)
            \/ CallRevision(c)
            \/ CallMutate(c)
         /\ UNCHANGED <<ctl, args, toolVars, cloud, gateVars, runVars>>

SpecTwoCalls == InitTwoCalls /\ [][NextTwoCalls]_vars

----------------------------------------------------------------------------
(* Reading the trace *)

Calls(tr) == SelectSeq(tr, LAMBDA e : e.op = "call")
CallsOf(tr, method) == SelectSeq(tr, LAMBDA e : e.op = "call" /\ e.arg = method)
SleepsOf(tr, who) == SelectSeq(tr, LAMBDA e : e.op = "sleep" /\ e.arg = who)

----------------------------------------------------------------------------
(* Claims *)

\* C3: callWithRetry invokes fn again only after a failure with code 7, at
\* most 8 times in all; it returns the value of the first successful
\* invocation; it throws the error of the 8th invocation when all 8 failed
\* with code 7, and the error of the first invocation that failed with any
\* other code; the thrown value is the error object fn raised, unwrapped.
C3_RetryContract ==
    LET calls == Calls(trace)
        n == Len(calls)
    IN  /\ entry = "callWithRetry" => n <= maxRetries + 1
        /\ \A i \in 1..(n - 1) :
             ~calls[i].ok /\ calls[i].n = PERMISSION_DENIED
        /\ pc # "done" =>
             \A i \in 1..n : ~calls[i].ok /\ calls[i].n = PERMISSION_DENIED
        /\ pc = "done" =>
             /\ n >= 1
             /\ trace[Len(trace)] = calls[n]
             /\ IF calls[n].ok
                THEN outcome = Returned(calls[n].val, Len(trace))
                ELSE /\ outcome.kind = "thrown"
                     /\ outcome.err.id = Len(trace)
                     /\ outcome.err.name = "backend"
                     /\ outcome.err.code = calls[n].n
                     /\ outcome.err.msg = calls[n].msg
                     /\ calls[n].n = PERMISSION_DENIED => n = maxRetries + 1

\* C3 witnesses: a success after 7 retries; the 8 invocations of an
\* exhausted call.
C3_Witness ==
    /\ pc = "done"
    /\ outcome.kind = "thrown"
    /\ outcome.err.code = PERMISSION_DENIED
    /\ Len(Calls(trace)) = maxRetries + 1

\* Calls of enableService for capability a.
EnableCalls(a) ==
    Len(SelectSeq(trace, LAMBDA e :
          e.op = "call" /\ e.arg = "serviceUsage.enableService" /\ e.flags = {a}))

\* Capability a was ENABLED when the gate was called: it is ENABLED now and
\* no activation operation of this call completed for it.
InitiallyEnabled(a) ==
    /\ cloud.apis[a] = "ENABLED"
    /\ \A i \in 1..Len(trace) :
         ~(trace[i].arg = "enableService.operation" /\ trace[i].ok
             /\ trace[i].flags = {a})

NoCallFailed == \A i \in 1..Len(trace) : trace[i].ok

GateReturned ==
    \E i \in 1..Len(trace) :
      trace[i].op = "return" /\ trace[i].arg = "ensureApisEnabled"

\* C7 as stated, read on the calls of ensureApisEnabled that return: exactly
\* one enableService call for each capability that was not ENABLED, none for
\* each that was.
C7_ExactlyOncePerDisabled ==
    GateReturned =>
      \A a \in Range(apis) :
        EnableCalls(a) = IF InitiallyEnabled(a) THEN 0 ELSE 1

\* C7 amended: enableService is never called for a capability whose initial
\* state is ENABLED; when the gate returns it has been called at least once
\* for each capability of the list whose initial state is not ENABLED, and
\* exactly once when no backend call of the gate failed.
C7_EnableOnlyDisabled ==
    /\ \A a \in Range(apis) : InitiallyEnabled(a) => EnableCalls(a) = 0
    /\ GateReturned =>
         \A a \in Range(apis) :
           ~InitiallyEnabled(a) =>
             /\ EnableCalls(a) >= 1
             /\ NoCallFailed => EnableCalls(a) = 1

\* C7 witness: the gate returned with no failure, having enabled one
\* capability and found another one enabled.
C7_Witness ==
    /\ GateReturned
    /\ NoCallFailed
    /\ \E a, b \in Range(apis) :
         /\ InitiallyEnabled(a) /\ EnableCalls(a) = 0
         /\ ~InitiallyEnabled(b) /\ EnableCalls(b) = 1

GateMethods ==
    {"serviceUsage.getService", "serviceUsage.enableService",
     "enableService.operation"}

\* Positions in the trace where checkAndEnableApi is entered, and whether an
\* entry is the retry that follows the gate's one-second wait.
EnterIdx ==
    {i \in 1..Len(trace) :
       trace[i].op = "enter" /\ trace[i].arg = "checkAndEnableApi"}
IsRetryEnter(i) ==
    i > 1 /\ trace[i - 1].op = "sleep" /\ trace[i - 1].arg = "ensureApisEnabled"
\* The position in `apis` of the capability that entry i works on.
Rank(i) == Cardinality({j \in EnterIdx : j <= i /\ ~IsRetryEnter(j)})
\* Positions where an attempt of checkAndEnableApi failed: a failed gate call
\* that callWithRetry did not repeat.
AttemptFailedIdx ==
    {i \in 1..Len(trace) :
       /\ trace[i].op = "call" /\ trace[i].arg \in GateMethods /\ ~trace[i].ok
       /\ ~(i < Len(trace) /\ trace[i + 1].op = "sleep"
              /\ trace[i + 1].arg = "callWithRetry")}
GateSleepIdx ==
    {i \in 1..Len(trace) :
       trace[i].op = "sleep" /\ trace[i].arg = "ensureApisEnabled"}
GateThrew ==
    \E i \in 1..Len(trace) :
      trace[i].op = "throw" /\ trace[i].arg = "ensureApisEnabled"

\* C8: each capability's check-and-enable step is entered at most twice, in
\* list order; the second entry follows a failed first attempt and one wait
\* of 1000 ms; every failed attempt is followed either by that wait and the
\* retry or, when it was the retry, by the gate throwing an error that names
\* the capability, with no capability after it entered.
C8_GateRetriesOnce ==
    LET enters == EnterIdx
        rank == [i \in enters |->
                   Cardinality({j \in enters : j <= i /\ ~IsRetryEnter(j)})]
        failed == AttemptFailedIdx
        sleeps == GateSleepIdx
    IN  /\ \A i \in enters :
             /\ rank[i] \in 1..Len(apis)
             /\ trace[i].val = apis[rank[i]]
             /\ Cardinality({j \in enters : rank[j] = rank[i]}) <= 2
             /\ IsRetryEnter(i) =>
                  /\ trace[i - 1].n = 1000
                  /\ \E f \in failed :
                       /\ f < i
                       /\ \A j \in (f + 1)..(i - 1) : trace[j].op \in {"progress", "sleep"}
                       /\ \E j \in enters : j < f /\ rank[j] = rank[i] /\ ~IsRetryEnter(j)
        /\ \A s \in sleeps : s < Len(trace) /\ (s + 1) \in enters
        /\ Cardinality(failed) =
             Cardinality(sleeps) + (IF GateThrew THEN 1 ELSE 0)
        /\ GateThrew =>
             LET last == CHOOSE i \in enters : \A j \in enters : j <= i
             IN  /\ IsRetryEnter(last)
                 /\ rank[last] = apiIdx
                 /\ pc = "done"
                 /\ outcome.kind = "thrown"
                 /\ outcome.err.name = "Failed to ensure API is enabled after retry"
                 /\ outcome.err.subject = apis[apiIdx]
                 /\ outcome.err.subject = trace[last].val

\* C8 witness: the gate threw on the first of two capabilities after two
\* failed attempts, the second capability untouched.
C8_Witness ==
    /\ GateThrew
    /\ Len(apis) = 2
    /\ apiIdx = 1
    /\ Cardinality(EnterIdx) = 2
    /\ Cardinality(GateSleepIdx) = 1

\* Positions in the trace of the calls of a method, and of the sleeps of a
\* sleeper.
CallIdx(method) ==
    {i \in 1..Len(trace) : trace[i].op = "call" /\ trace[i].arg = method}
SleepIdx(who) ==
    {i \in 1..Len(trace) : trace[i].op = "sleep" /\ trace[i].arg = who}

\* getBuild calls that reported a non-terminal status, a terminal status.
NonTerminalIdx ==
    {i \in CallIdx("cloudBuild.getBuild") :
       trace[i].ok /\ trace[i].val \in {"QUEUED", "WORKING", "EXPIRED", ""}}
TerminalIdx ==
    {i \in CallIdx("cloudBuild.getBuild") :
       /\ trace[i].ok
       /\ trace[i].val \in {"SUCCESS", "FAILURE", "INTERNAL_ERROR", "TIMEOUT",
                            "CANCELLED"}}
FailedTerminalIdx == {i \in TerminalIdx : trace[i].val # "SUCCESS"}

C5_ExactlyOneLogFetch ==
    (pc = "done" /\ FailedTerminalIdx # {}) =>
      Cardinality(CallIdx("logging.getEntries")) = 1

\* C5 amended: after a non-success terminal status there is exactly one wait
\* of 10000 ms, it precedes every getEntries call, and the log fetch is made
\* once through the retry executor: getEntries is invoked at least once and
\* at most 8 times, again only after a failure with code 7, so exactly once
\* when its first invocation does not fail with code 7.  On SUCCESS, and
\* before a terminal status, there is no log fetch and no such wait.
C5_LogFetch ==
    LET ge == CallIdx("logging.getEntries")
        lw == SleepIdx("triggerCloudBuild.logs")
    IN  /\ FailedTerminalIdx = {} => ge = {} /\ lw = {}
        /\ \A t \in FailedTerminalIdx :
             /\ Cardinality(lw) = 1
             /\ \A w \in lw :
                  /\ trace[w].n = 10000
                  /\ t < w
                  /\ \A g \in ge : w < g
             /\ Cardinality(ge) <= maxRetries + 1
             /\ pc = "done" => Cardinality(ge) >= 1
             /\ \A g, h \in ge :
                  g < h => ~trace[g].ok /\ trace[g].n = PERMISSION_DENIED

\* C5 witness: a failed build whose log fetch was invoked twice, the first
\* invocation failing with code 7.
C5_Witness ==
    /\ pc = "done"
    /\ FailedTerminalIdx # {}
    /\ Cardinality(CallIdx("logging.getEntries")) = 2
    /\ Cardinality(SleepIdx("triggerCloudBuild.logs")) = 1

\* C6: after a non-success terminal status triggerCloudBuild never returns,
\* and what it throws is the build-failure error built by the function
\* itself: it names the build and carries the fetched entries' data, oldest
\* first, when the log fetch returned at least one entry, and the log URL
\* when the fetch returned none or failed.
C6_BuildFailureError ==
    FailedTerminalIdx # {} =>
      /\ outcome.kind # "returned"
      /\ (pc = "done" /\ entry = "triggerCloudBuild") =>
           LET ge == CallIdx("logging.getEntries")
               g == CHOOSE i \in ge : \A j \in ge : j <= i
               e == outcome.err
           IN  /\ ge # {}
               /\ outcome.kind = "thrown"
               /\ e.name = "Build failed"
               /\ e.id = 0
               /\ e.subject = BuildId
               /\ IF trace[g].ok /\ Len(trace[g].msg) > 0
                  THEN /\ Len(e.lines) = Len(trace[g].msg)
                       /\ \A i \in 1..Len(e.lines) :
                            e.lines[i] =
                              DataOrEmpty(trace[g].msg[Len(e.lines) + 1 - i])
                       /\ LogUrl \notin Range(e.msg)
                  ELSE e.lines = <<>> /\ e.msg = <<LogUrl>>

\* C6 witness: a failed build whose log fetch itself failed.
C6_Witness ==
    /\ pc = "done"
    /\ FailedTerminalIdx # {}
    /\ \E g \in CallIdx("logging.getEntries") : ~trace[g].ok /\ trace[g].n = 13
    /\ outcome.err.name = "Build failed"
    /\ outcome.err.msg = <<LogUrl>>

\* Positions where the dry-run catch block was entered: its first progress
\* event carries the message and the code of the error it caught.
DryRunCaughtIdx ==
    {i \in 1..Len(trace) :
       trace[i].op = "progress" /\ trace[i].arg = "Dry run failed"}
ServiceCallIdx == CallIdx("run.createService") \cup CallIdx("run.updateService")
DryRunCallIdx == {i \in ServiceCallIdx : "validateOnly" \in trace[i].flags}
RealCallIdx == {i \in ServiceCallIdx : "validateOnly" \notin trace[i].flags}
NamesInvokerFlag(msg) ==
    \E i \in 1..Len(msg) : msg[i] \in {"invokerIamDisabled", "INVOKERIAMDISABLED"}

\* C1: when skipIamCheck is set and the dry run failed with a message that
\* contains 'invokerIamDisabled' in any case, deployToCloudRun goes on to the
\* real call: it is not over before a create/update call without
\* validateOnly has been made, every such call carries no invokerIamDisabled
\* field, the dry run is not entered a second time and no validate-only call
\* follows the failure.
C1_FallbackSubmitsWithoutFlag ==
    \A c \in DryRunCaughtIdx :
      (skipIamCheck /\ NamesInvokerFlag(trace[c].msg)) =>
        /\ pc \in {"run.mutate", "run.operation", "done"}
        /\ pc \in {"run.operation", "done"} => \E m \in RealCallIdx : c < m
        /\ \A m \in RealCallIdx : "invokerIamDisabled" \notin trace[m].flags
        /\ \A v \in DryRunCallIdx : v < c
        /\ DryRunCaughtIdx = {c}

\* C1 witness: the fallback was taken for an upper-case spelling and the
\* service was created without the flag.
C1_Witness ==
    /\ pc = "done"
    /\ skipIamCheck
    /\ outcome.kind = "returned"
    /\ \E c \in DryRunCaughtIdx : trace[c].msg = <<"INVOKERIAMDISABLED">>
    /\ \E m \in RealCallIdx :
         "invokerIamDisabled" \notin trace[m].flags /\ trace[m].ok

\* The invoker-flag rejection as section 4.6 describes it: the bypass was
\* requested and the message names the flag or an IAM policy violation, or
\* the error is classified invalid-argument.
DescribedRejection(c) ==
    /\ skipIamCheck
    /\ \/ NamesInvokerFlag(trace[c].msg)
       \/ \E i \in 1..Len(trace[c].msg) : trace[c].msg[i] = "IAM Policy Violation"
       \/ trace[c].n = 3

\* C2: a dry-run failure that is not that rejection ends deployToCloudRun at
\* once: no create/update call without validateOnly is made, and the error
\* thrown is 'Dry run validation failed for service <serviceId>: <message of
\* the dry-run error>'.
C2_OtherDryRunFailureAborts ==
    \A c \in DryRunCaughtIdx :
      ~DescribedRejection(c) =>
        /\ RealCallIdx = {}
        /\ pc = "done"
        /\ outcome.kind = "thrown"
        /\ outcome.err.name = "Dry run validation failed for service"
        /\ outcome.err.subject = ServiceId
        /\ outcome.err.msg = trace[c].msg

\* C2 witness: with the bypass not requested, a dry-run error that names the
\* flag aborted the deployment.
C2_Witness ==
    /\ ~skipIamCheck
    /\ pc = "done"
    /\ outcome.kind = "thrown"
    /\ \E c \in DryRunCaughtIdx : NamesInvokerFlag(trace[c].msg)
    /\ RealCallIdx = {}

\* The stage of deploy / deployImage that a backend method belongs to.
StageNo(method) ==
    CASE method \in GateMethods -> 1
      [] method \in {"storage.bucket.exists", "storage.createBucket"} -> 2
      [] method = "archiver.finalize" -> 3
      [] method = "storage.bucket.file.save" -> 4
      [] method \in {"artifactRegistry.getRepository",
                     "artifactRegistry.createRepository",
                     "createRepository.operation"} -> 5
      [] method \in {"cloudBuild.createBuild", "cloudBuild.getBuild",
                     "logging.getEntries"} -> 6
      [] OTHER -> 7
AllCallIdx == {i \in 1..Len(trace) : trace[i].op = "call"}
ThrowIdx == {i \in 1..Len(trace) : trace[i].op = "throw"}
\* A failed call that its stage recovers from: one that callWithRetry
\* repeats, the first attempt of the gate on a capability, a repository
\* lookup answering NOT_FOUND, the log fetch, the dry run rejected for the
\* invoker flag.
Recovered(i) ==
    \/ i < Len(trace) /\ trace[i + 1].op = "sleep" /\ trace[i + 1].arg = "callWithRetry"
    \/ /\ trace[i].arg \in GateMethods
       /\ LET before == {j \in EnterIdx : j < i}
          IN  /\ before # {}
              /\ ~IsRetryEnter(CHOOSE en \in before : \A j \in before : j <= en)
    \/ trace[i].arg = "artifactRegistry.getRepository" /\ trace[i].n = NOT_FOUND
    \/ trace[i].arg = "logging.getEntries"
    \/ /\ trace[i].arg \in {"run.createService", "run.updateService"}
       /\ "validateOnly" \in trace[i].flags
       /\ \E c \in (i + 1)..Len(trace) :
            /\ trace[c].op = "progress" /\ trace[c].arg = "Dry run failed"
            /\ DescribedRejection(c)
\* Where a stage failed fatally: a failed call not recovered from, a build
\* that ended in a status other than SUCCESS, a stage function throwing.
FatalIdx ==
    {i \in AllCallIdx : ~trace[i].ok /\ ~Recovered(i)}
      \cup FailedTerminalIdx \cup ThrowIdx

\* C9: in deploy and deployImage the backend calls follow the order of the
\* stages; once a stage failed fatally no call of a later stage is made (the
\* last call is of the failed stage, so with the order every call after is) and
\* the call ends rejected (a failed build may still fetch its logs first);
\* after a gate failure there is no storage, registry, build or service call
\* at all, and after a non-success build no createService / updateService.
C9_FatalStageAborts ==
    entry \in {"deploy", "deployImage"} =>
      LET cs == Calls(trace)
          calls == AllCallIdx
          failedBuilds == FailedTerminalIdx
          lastCall == IF calls = {} THEN 0
                      ELSE CHOOSE i \in calls : \A j \in calls : j <= i
      IN  /\ \A k \in 1..(Len(cs) - 1) :
               StageNo(cs[k].arg) <= StageNo(cs[k + 1].arg)
          /\ \A f \in FatalIdx :
               /\ lastCall > f =>
                    /\ f \in calls
                    /\ StageNo(trace[lastCall].arg) = StageNo(trace[f].arg)
               /\ outcome.kind # "returned"
               /\ \/ pc = "done" /\ outcome.kind = "thrown"
                  \/ f \in failedBuilds /\ pc = "build.getEntries"
          /\ GateThrew => \A j \in calls : trace[j].arg \in GateMethods
          /\ failedBuilds # {} =>
               /\ ServiceCallIdx = {}
               /\ \A j \in calls : StageNo(trace[j].arg) < 7

\* C9 witness: deploy got as far as the build, the build ended in FAILURE,
\* and deploy rejected with the build's error.
C9_Witness ==
    /\ entry = "deploy"
    /\ pc = "done"
    /\ outcome.kind = "thrown"
    /\ outcome.err.name = "Build failed"
    /\ FailedTerminalIdx # {}
    /\ CallIdx("storage.bucket.file.save") # {}

\* C10: deploy of one directory, every backend call succeeding (the build
\* among them: it ends in SUCCESS) and the service found absent: once over, it made exactly one createService call
\* with validateOnly, exactly one without, exactly one createBuild call and
\* no updateService call, and it returned what the create operation
\* produced.
C10_FirstDeployOfDirectory ==
    ( /\ entry = "deploy"
      /\ config.projectId /\ config.serviceName
      /\ files = "directory"
      /\ pc = "done"
      /\ NoCallFailed
      /\ FailedTerminalIdx = {}
      /\ \A g \in CallIdx("run.getService") : trace[g].val = "absent" )
    =>
      /\ Cardinality(DryRunCallIdx \cap CallIdx("run.createService")) = 1
      /\ Cardinality(RealCallIdx \cap CallIdx("run.createService")) = 1
      /\ Cardinality(CallIdx("cloudBuild.createBuild")) = 1
      /\ CallIdx("run.updateService") = {}
      /\ outcome.kind = "returned"
      /\ outcome.id \in CallIdx("run.operation")
      /\ "run.createService" \in trace[outcome.id].flags
      /\ outcome.val = trace[outcome.id].val
      /\ \A j \in CallIdx("run.operation") : j = outcome.id

\* C10 witness: such a deploy is over and returned the created service.
C10_Witness ==
    /\ entry = "deploy"
    /\ config.projectId /\ config.serviceName
    /\ files = "directory"
    /\ pc = "done"
    /\ NoCallFailed
    /\ \E g \in CallIdx("run.getService") : trace[g].val = "absent"
    /\ outcome.kind = "returned"
    /\ outcome.val = "service"
    /\ CallIdx("cloudBuild.createBuild") # {}

UploadCallIdx == CallIdx("storage.bucket.file.save")

\* C11: in deploy, every upload call comes after the bucket stage is over
\* (the bucket was found or created, ensureStorageBucketExists returned, and
\* no bucket call follows); every build call comes after the upload
\* succeeded and uploadToStorageBucket returned, with no upload call after
\* it; every call on the service (exists check, dry run, mutation) comes
\* after getBuild reported SUCCESS and triggerCloudBuild returned, with no
\* build call after it.
C11_StagesSequential ==
    entry = "deploy" =>
      LET calls == AllCallIdx
          Of(methods) == {i \in calls : trace[i].arg \in methods}
          bucket == Of({"storage.bucket.exists", "storage.createBucket"})
          upload == Of({"storage.bucket.file.save"})
          build == Of({"cloudBuild.createBuild", "cloudBuild.getBuild",
                       "logging.getEntries"})
          run == Of({"run.getService", "run.createService",
                     "run.updateService", "run.operation"})
          returns == {i \in 1..Len(trace) : trace[i].op = "return"}
          Returned_(fn, before) ==
              \E r \in returns : r < before /\ trace[r].arg = fn
      IN  /\ \A u \in upload :
               /\ \E b \in bucket :
                    /\ b < u /\ trace[b].ok
                    /\ trace[b].arg = "storage.bucket.exists" => trace[b].val = "true"
               /\ Returned_("ensureStorageBucketExists", u)
               /\ \A b \in bucket : b < u
          /\ \A c \in build :
               /\ \E u \in upload : u < c /\ trace[u].ok
               /\ Returned_("uploadToStorageBucket", c)
               /\ \A u \in upload : u < c
          /\ \A d \in run :
               /\ \E g \in build :
                    /\ g < d /\ trace[g].ok
                    /\ trace[g].arg = "cloudBuild.getBuild"
                    /\ trace[g].val = "SUCCESS"
               /\ Returned_("triggerCloudBuild", d)
               /\ \A c \in build : c < d

\* C11 witness: a deploy that created its bucket, uploaded, built and created
\* the service.
C11_Witness ==
    /\ entry = "deploy"
    /\ pc = "done"
    /\ outcome.kind = "returned"
    /\ \E b \in CallIdx("storage.createBucket") : trace[b].ok
    /\ UploadCallIdx # {}
    /\ CallIdx("cloudBuild.createBuild") # {}
    /\ RealCallIdx # {}

\* Positions of the 'Deployment Failed' reports.
DeploymentFailedIdx ==
    {i \in 1..Len(trace) :
       /\ trace[i].op = "progress" /\ trace[i].arg = "Deployment Failed"
       /\ trace[i].val = "error"}
Rejected == pc = "done" /\ outcome.kind = "thrown"
\* The request passed the opening checks: the backend clients were created.
PassedValidation == \E i \in 1..Len(trace) : trace[i].op = "clients"

\* C12 as stated: whenever deploy or deployImage rejected, an error event
\* 'Deployment Failed: <message of the error>' was emitted before.
C12_EveryRejectionReported ==
    (entry \in {"deploy", "deployImage"} /\ Rejected) =>
      \E i \in DeploymentFailedIdx : trace[i].msg = Message(outcome.err)

\* C12 amended: when deploy or deployImage rejected after the request passed
\* validation, the last event is the error event 'Deployment Failed:
\* <message>' with the message of the error the failing step threw, and the
\* rejection value is that very error: the object a failed backend call
\* raised, or the one the stage constructed.  When the request failed
\* validation there is no 'Deployment Failed' event: the one event is the
\* error event with the validation message, which the new error carries.
C12_FailureHandler ==
    (entry \in {"deploy", "deployImage"} /\ Rejected) =>
      LET last == Len(trace)
      IN  IF PassedValidation
          THEN /\ last >= 2
               /\ DeploymentFailedIdx = {last}
               /\ trace[last - 1].op = "throw"
               /\ trace[last].msg = Message(trace[last - 1].err)
               /\ outcome.err = trace[last - 1].err
               /\ outcome.err.id # 0 =>
                    /\ trace[outcome.err.id].op = "call"
                    /\ ~trace[outcome.err.id].ok
                    /\ trace[outcome.err.id].n = outcome.err.code
                    /\ trace[outcome.err.id].msg = outcome.err.msg
          ELSE /\ last = 1
               /\ DeploymentFailedIdx = {}
               /\ trace[1].op = "progress" /\ trace[1].val = "error"
               /\ trace[1].msg = <<outcome.err.name>>
               /\ outcome.err.id = 0

\* C12 witness: deploy rejected with the error object a failed upload raised.
C12_Witness ==
    /\ entry = "deploy"
    /\ Rejected
    /\ outcome.err.id \in UploadCallIdx
    /\ DeploymentFailedIdx # {}

Other(c) == CHOOSE d \in CallerIds : d # c

\* C13 as stated: of two deploy calls for different service names, each
\* builds from the archive it uploaded itself and deploys the image built
\* from its own files, in every interleaving.
C13_CallsIndependent ==
    \A c \in DOMAIN callers :
      Caller(c).serviceName # Caller(Other(c)).serviceName =>
        /\ Caller(c).built \in {NoContent, FilesOf(c)}
        /\ Caller(c).deployed \in {NoContent, FilesOf(c)}

\* C14 as stated: two invocations of the service deployer for the same
\* service identifier never generate the same revision name, and no
\* revision name is submitted twice.
C14_RevisionNamesDiffer ==
    /\ \A c, d \in DOMAIN callers :
         (c # d /\ Caller(c).serviceName = Caller(d).serviceName
            /\ Caller(c).revision # NoRevision) =>
           Caller(c).revision # Caller(d).revision
    /\ \A i, j \in 1..Len(shared.revisions) :
         i # j => shared.revisions[i] # shared.revisions[j]

\* C15 as stated: with skipIamCheck set, a dry-run error of code 3 with any
\* message, the empty or absent one too, and a dry-run error whose message
\* contains 'iam policy violation' with any code, make deployToCloudRun
\* strip the bypass flag and go on to the real mutation.
C15_FallbackOnCodeOrPhrase ==
    \A c \in DryRunCaughtIdx :
      (skipIamCheck /\ (trace[c].n = INVALID_ARGUMENT
                          \/ LowerIncludes(trace[c].msg, "iam policy violation"))) =>
        /\ pc \in {"run.mutate", "run.operation", "done"}
        /\ pc \in {"run.operation", "done"} => \E m \in RealCallIdx : c < m
        /\ \A m \in RealCallIdx : "invokerIamDisabled" \notin trace[m].flags

\* The calls of a provisioner, read from the trace.
IsBucket == entry = "ensureStorageBucketExists"
AgainIdx ==
    {i \in 1..Len(trace) : trace[i].op = "enter" /\ trace[i].arg = entry}
SameCall(i, j) == \A k \in AgainIdx : k < i \/ k > j
InLastCall(i) == \A k \in AgainIdx : k < i
CheckIdx ==
    CallIdx(IF IsBucket THEN "storage.bucket.exists"
            ELSE "artifactRegistry.getRepository")
CreateIdx ==
    CallIdx(IF IsBucket THEN "storage.createBucket"
            ELSE "artifactRegistry.createRepository")
\* Calls that completed the creation of the resource.
CreatedIdx ==
    {i \in CallIdx(IF IsBucket THEN "storage.createBucket"
                   ELSE "createRepository.operation") : trace[i].ok}
\* Checks that found the resource.
FoundIdx ==
    {i \in CheckIdx : trace[i].ok /\ (IsBucket => trace[i].val = "true")}
\* The resource was absent before the first call: it is absent now, or
\* one of the calls created it.
StartedAbsent ==
    \/ CreatedIdx # {}
    \/ IF IsBucket THEN ~cloud.bucket ELSE ~cloud.repo
\* When the check finds the resource, the call makes no create call and
\* returns what the check found.
FoundMeansNoCreate ==
    \A f \in FoundIdx :
      /\ \A c \in CreateIdx : ~(f < c /\ SameCall(f, c))
      /\ InLastCall(f) =>
           /\ pc = "done"
           /\ outcome = Returned(IF IsBucket THEN "bucket" ELSE trace[f].val, f)

\* C16 as stated: a provisioner that finds the resource makes no create call
\* and returns it; sequential calls that started with the resource absent
\* and all returned have made exactly one create call in total.
C16_CreateExactlyOnce ==
    entry \in Provisioners =>
      /\ FoundMeansNoCreate
      /\ (StartedAbsent /\ pc = "done" /\ ThrowIdx = {}) =>
           Cardinality(CreateIdx) = 1

\* C16, amended: a provisioner that finds the resource makes no create call
\* and returns it; the resource is created at most once over all the calls;
\* once a call has returned after a start with the resource absent, at least
\* one create call has been made, and exactly one when no create call and no
\* creation operation failed.
C16_Idempotent ==
    entry \in Provisioners =>
      /\ FoundMeansNoCreate
      /\ Cardinality(CreatedIdx) <= 1
      /\ (StartedAbsent /\ \E i \in 1..Len(trace) : trace[i].op = "return") =>
           /\ CreateIdx # {}
           /\ (\A c \in CreateIdx \cup CallIdx("createRepository.operation") :
                 trace[c].ok) => Cardinality(CreateIdx) = 1

\* C16 witness: the first call created the resource, a later call found it
\* and returned it without creating anything.
C16_Witness ==
    /\ entry \in Provisioners
    /\ pc = "done"
    /\ CallsMade >= 2
    /\ Cardinality(CreateIdx) = 1
    /\ \A c \in CreateIdx : InLastCall(c) = FALSE
    /\ outcome.kind = "returned"
    /\ outcome.id \in FoundIdx

\* getRepository calls whose error reached the catch block: callWithRetry
\* did not repeat them.
LookupFailedIdx ==
    {g \in CheckIdx :
       /\ ~trace[g].ok
       /\ ~(g < Len(trace) /\ trace[g + 1].op = "sleep"
              /\ trace[g + 1].arg = "callWithRetry")}

\* C17: ensureArtifactRegistryRepoExists calls createRepository if and only
\* if the lookup failed with code 5; it then returns only after the creation
\* operation has completed, with the operation's result; after a lookup that
\* failed with another code it makes no createRepository call and throws
\* that same error.
C17_CreateIffNotFound ==
    entry = "ensureArtifactRegistryRepoExists" =>
      /\ \A c \in CreateIdx :
           \E g \in LookupFailedIdx :
             /\ g < c /\ SameCall(g, c) /\ trace[g].n = NOT_FOUND
             /\ \A h \in CheckIdx : ~(g < h /\ h < c)
      /\ \A g \in LookupFailedIdx :
           IF trace[g].n = NOT_FOUND
           THEN /\ \/ \E c \in CreateIdx : g < c /\ SameCall(g, c)
                   \/ InLastCall(g) /\ pc = "repo.create"
                /\ (InLastCall(g) /\ pc = "done" /\ outcome.kind = "returned") =>
                     \E o \in CallIdx("createRepository.operation") :
                       /\ g < o /\ trace[o].ok
                       /\ \E c \in CreateIdx : g < c /\ c < o /\ trace[c].ok
                       /\ outcome = Returned(trace[o].val, o)
           ELSE /\ \A c \in CreateIdx : ~(g < c /\ SameCall(g, c))
                /\ InLastCall(g) =>
                     /\ pc = "done"
                     /\ outcome.kind = "thrown"
                     /\ outcome.err = BackendError(
                          [code |-> trace[g].n, msg |-> trace[g].msg], g)

\* C17 witness: one call threw the lookup error of another class without
\* creating anything, the next one found the repository absent, created it
\* and returned the operation's result.
C17_Witness ==
    /\ entry = "ensureArtifactRegistryRepoExists"
    /\ pc = "done"
    /\ outcome.kind = "returned"
    /\ \E g \in LookupFailedIdx : trace[g].n = 13
    /\ \E g \in LookupFailedIdx : trace[g].n = NOT_FOUND /\ InLastCall(g)
    /\ outcome.id \in CallIdx("createRepository.operation")

RunMethods ==
    {"run.getService", "run.createService", "run.updateService", "run.operation"}
ImageFlags == {"image:imageUrl", "image:builtImageUrl", "image:imgUrl"}

\* C18: deployImage gives the gate the compute capability only
\* (run.googleapis.com), makes no storage, registry, build or log call, and
\* every service payload it submits names the caller's imageUrl as its image.
C18_ImageDeployFrame ==
    entry = "deployImage" =>
      LET calls == AllCallIdx
      IN  /\ \A e \in EnterIdx : trace[e].val = "run.googleapis.com"
          /\ \A i \in calls :
               \/ /\ trace[i].arg \in GateMethods
                  /\ trace[i].arg # "enableService.operation" =>
                       trace[i].flags = {"run.googleapis.com"}
               \/ /\ trace[i].arg \in RunMethods
                  /\ trace[i].arg \in {"run.createService", "run.updateService"} =>
                       trace[i].flags \cap ImageFlags = {"image:imageUrl"}

\* C18 witness: deployImage enabled run.googleapis.com, then created the
\* service from the caller's image and returned it.
C18_Witness ==
    /\ entry = "deployImage"
    /\ pc = "done"
    /\ outcome.kind = "returned"
    /\ \E i \in CallIdx("serviceUsage.enableService") : trace[i].ok
    /\ \E m \in RealCallIdx : trace[m].ok /\ "image:imageUrl" \in trace[m].flags

MissingField ==
    IF ~config.projectId
    THEN "Error: projectId is required in the configuration object."
    ELSE "Error: serviceName is required in the configuration object."

ThirdFieldMissing ==
    /\ config.projectId /\ config.serviceName
    /\ \/ entry = "deploy" /\ files \in InvalidFiles
       \/ entry = "deployImage" /\ ~config.imageUrl
ThirdFieldMessage ==
    IF entry = "deploy"
    THEN "Error: files array is required in the configuration object."
    ELSE "Error: imageUrl is required in the configuration object."

\* C20: deploy with a missing, non-array or empty files list, and deployImage
\* without an imageUrl, emit one error event and then terminate the process
\* when process.exit exists, throw otherwise; no client is created and no
\* capability, provisioning, build or service call is made.
C20_ExitOrThrow ==
    ThirdFieldMissing =>
      /\ ~PassedValidation
      /\ AllCallIdx = {}
      /\ pc \in {"deploy.start", "deployImage.start", "done"}
      /\ pc = "done" =>
           /\ Len(trace) = 1
           /\ trace[1].op = "progress" /\ trace[1].val = "error"
           /\ trace[1].msg = <<ThirdFieldMessage>>
           /\ IF canExit
              THEN outcome = Exited(1)
              ELSE /\ outcome.kind = "thrown"
                   /\ Message(outcome.err) = <<ThirdFieldMessage, "">>

\* C20 witness: deploy was given an empty files list and terminated the
\* process.
C20_Witness ==
    /\ entry = "deploy"
    /\ files = "empty"
    /\ ThirdFieldMissing
    /\ pc = "done"
    /\ outcome = Exited(1)

\* Backend calls whose error reached a catch block of the pipeline: failed
\* calls that callWithRetry did not repeat.
CaughtIdx ==
    {i \in AllCallIdx :
       /\ ~trace[i].ok
       /\ ~(i < Len(trace) /\ trace[i + 1].op = "sleep"
              /\ trace[i + 1].arg = "callWithRetry")}
ErrorEventIdx ==
    {i \in 1..Len(trace) : trace[i].op = "progress" /\ trace[i].val = "error"}

\* C21 as stated: every caught error is followed by a progress event of
\* severity error, and once an error was caught the call does not return.
C21_EveryCaughtErrorReported ==
    entry \in {"deploy", "deployImage"} =>
      LET errors == ErrorEventIdx
      IN  \A c \in CaughtIdx :
            /\ \E j \in errors : c < j
            /\ pc = "done" => outcome.kind = "thrown"

\* C21, amended: every error that a stage does not recover from, and every
\* build that ended without success, is followed by a progress event of
\* severity error, and the call rejects; the errors a stage recovers from
\* (the first attempt of the gate on a capability, a repository lookup
\* answering not-found, the dry run rejected for the invoker flag, the
\* fetch of the build logs) are followed by an event of severity warn or
\* info instead, and only the failed log fetch is always followed by the
\* rejection of the call.
C21_FatalErrorsReported ==
    entry \in {"deploy", "deployImage"} =>
      LET errors == ErrorEventIdx
          caught == CaughtIdx
          progress == {j \in 1..Len(trace) : trace[j].op = "progress"}
          NextProgress(i) ==
              CHOOSE j \in progress : i < j /\ \A k \in progress : i < k => j <= k
      IN  /\ \A f \in {c \in caught : ~Recovered(c)} \cup FailedTerminalIdx :
               /\ \E j \in errors : f < j
               /\ pc = "done" => outcome.kind = "thrown"
          /\ \A r \in {c \in caught : Recovered(c)} :
               /\ \E j \in progress : r < j
               /\ trace[NextProgress(r)].val \in {"warn", "info"}
               /\ (trace[r].arg = "logging.getEntries" /\ pc = "done") =>
                    outcome.kind = "thrown"

\* C21 witness: the gate recovered from a failed first attempt after a
\* warning, a later stage failed fatally and deploy rejected after an error
\* event.
C21_Witness ==
    /\ entry = "deploy"
    /\ pc = "done"
    /\ outcome.kind = "thrown"
    /\ \E r \in CaughtIdx : Recovered(r) /\ trace[r].arg \in GateMethods
    /\ \E f \in CaughtIdx :
         /\ ~Recovered(f)
         /\ \E j \in ErrorEventIdx : f < j

\* C22: the waits of callWithRetry are 15000, 1000, 2000, 4000, 8000, 16000,
\* 32000 ms in that order (15000 before the first retry, 1000 * 2^(n-2)
\* before the n-th); each wait comes right after a failed invocation and
\* right before the next one, so none precedes the first invocation and none
\* follows the last.
C22_BackoffSchedule ==
    entry = "callWithRetry" =>
      LET schedule == <<15000, 1000, 2000, 4000, 8000, 16000, 32000>>
          sleeps == SleepsOf(trace, "callWithRetry")
          k == Len(sleeps)
      IN  /\ k <= 7
          /\ \A n \in 1..k :
               /\ sleeps[n].n = schedule[n]
               /\ n = 1 => sleeps[n].n = 15000
               /\ n >= 2 => sleeps[n].n = 1000 * 2^(n - 2)
               /\ trace[2 * n] = sleeps[n]
          /\ \A i \in 1..Len(trace) :
               trace[i].op = (IF i % 2 = 1 THEN "call" ELSE "sleep")
          /\ pc = "done" => Len(trace) = 2 * k + 1
          /\ pc # "done" => Len(trace) = 2 * k

\* C22 witness: all seven waits were made, the last of 32000 ms, and the
\* eighth invocation ended the call.
C22_Witness ==
    /\ entry = "callWithRetry"
    /\ pc = "done"
    /\ Len(SleepsOf(trace, "callWithRetry")) = 7
    /\ trace[14].op = "sleep" /\ trace[14].n = 32000
    /\ trace[15].op = "call"

ReturnIdx(fn) ==
    {i \in 1..Len(trace) : trace[i].op = "return" /\ trace[i].arg = fn}
\* Where the source is packaged and uploaded: zipFiles at work, the upload
\* call.
PackagingIdx ==
    {i \in 1..Len(trace) :
       \/ trace[i].op = "call"
            /\ trace[i].arg \in {"archiver.finalize", "storage.bucket.file.save"}
       \/ trace[i].op = "progress"
            /\ trace[i].arg = "Creating in-memory zip archive..."}
RepoCallIdx ==
    {i \in AllCallIdx :
       trace[i].arg \in {"artifactRegistry.getRepository",
                         "artifactRegistry.createRepository",
                         "createRepository.operation"}}

\* C23 as stated: in deploy, both provisioners have returned before the
\* source is packaged and uploaded.
C23_ProvisionersBeforePackaging ==
    entry = "deploy" =>
      LET bucketDone == ReturnIdx("ensureStorageBucketExists")
          repoDone == ReturnIdx("ensureArtifactRegistryRepoExists")
      IN  \A p \in PackagingIdx :
            /\ \E b \in bucketDone : b < p
            /\ \E r \in repoDone : r < p

\* C23, amended: in deploy the bucket provisioner has returned before the
\* source is packaged and uploaded; the repository provisioner is called
\* only after the upload has returned, and has returned before the build is
\* submitted.
C23_RepositoryAfterUpload ==
    entry = "deploy" =>
      LET bucketDone == ReturnIdx("ensureStorageBucketExists")
          uploadDone == ReturnIdx("uploadToStorageBucket")
          repoDone == ReturnIdx("ensureArtifactRegistryRepoExists")
          packaging == PackagingIdx
      IN  /\ \A p \in packaging : \E b \in bucketDone : b < p
          /\ \A r \in RepoCallIdx :
               /\ \E u \in uploadDone : u < r
               /\ \A p \in packaging : p < r
          /\ \A c \in CallIdx("cloudBuild.createBuild") :
               \E r \in repoDone : r < c

\* C23 witness: the repository was looked up, found absent and created
\* after the archive had been uploaded, and the build was then submitted.
C23_Witness ==
    /\ entry = "deploy"
    /\ CallIdx("cloudBuild.createBuild") # {}
    /\ \E u \in CallIdx("storage.bucket.file.save") :
         /\ trace[u].ok
         /\ \E r \in CallIdx("artifactRegistry.createRepository") : u < r

CreateBuildIdx == CallIdx("cloudBuild.createBuild")
\* The build request has one step, of the builder that hasDockerfile
\* selects, and the step's arguments name the target image.
OneStepOfTheRightBuilder ==
    \A c \in CreateBuildIdx :
      trace[c].flags =
        IF HasDockerfile
        THEN {"gcr.io/cloud-builders/docker", "build", "-t", TargetImageUrl, "."}
        ELSE {"gcr.io/k8s-skaffold/pack", "build", TargetImageUrl, "--builder",
              "gcr.io/buildpacks/builder:latest"}

\* C24 as stated: the build request has exactly one step, docker build when
\* hasDockerfile is true and buildpacks when it is false, the step targets
\* the given image, and createBuild is called exactly once per call of
\* triggerCloudBuild that got past it.
C24_OneStepOneCreateBuild ==
    entry = "triggerCloudBuild" =>
      /\ OneStepOfTheRightBuilder
      /\ pc \notin {"build.start", "build.create"} =>
           Cardinality(CreateBuildIdx) = 1

\* C24, amended: the build request has exactly one step, docker build when
\* hasDockerfile is true and buildpacks when it is false, and the step
\* targets the given image; createBuild is called at least once and at most
\* 8 times, again only after a failure with code 7 and the retry wait, with
\* the same request, so exactly once when it does not fail with code 7.
C24_OneStepBuild ==
    entry = "triggerCloudBuild" =>
      LET creates == CreateBuildIdx
      IN  /\ OneStepOfTheRightBuilder
          /\ Len(BuildSteps(HasDockerfile, TargetImageUrl)) = 1
          /\ pc \notin {"build.start", "build.create"} => creates # {}
          /\ Cardinality(creates) <= maxRetries + 1
          /\ \A c \in creates :
               (\E b \in creates : b < c) =>
                 /\ trace[c - 1].op = "sleep"
                 /\ trace[c - 2].arg = "cloudBuild.createBuild"
                 /\ ~trace[c - 2].ok /\ trace[c - 2].n = PERMISSION_DENIED
          /\ (\A c \in creates : trace[c].n # PERMISSION_DENIED) =>
               Cardinality(creates) <= 1

\* C24 witness: without a Dockerfile the buildpacks build was submitted, and
\* the build succeeded.
C24_Witness ==
    /\ entry = "triggerCloudBuild"
    /\ ~HasDockerfile
    /\ pc = "done"
    /\ outcome.kind = "returned"
    /\ \E c \in CreateBuildIdx :
         trace[c].ok /\ "gcr.io/k8s-skaffold/pack" \in trace[c].flags

----------------------------------------------------------------------------
(* Dockerfile detection *)

\* The value deploy reports for `hasDockerfile`, when it reports one.
DetectedIdx ==
    {k \in 1..Len(trace) :
       trace[k].op = "progress" /\ trace[k].arg = "Dockerfile"}
\* An item's base name, for the items that have one.
BaseNames(fs) ==
    {fs[i].base : i \in {j \in 1..Len(fs) :
                           \/ fs[j].type = "string"
                           \/ fs[j].type = "object" /\ fs[j].hasFilename}}

\* C25: for a file list that is a single directory path, detection is true
\* exactly when the directory holds 'Dockerfile' or 'dockerfile'; for any
\* other list it is true exactly when some item's base name is 'dockerfile'
\* in some casing.
C25_DockerfileDetection ==
    \A k \in DetectedIdx :
       (trace[k].msg = <<"true">>) <=>
          IF Len(items) = 1 /\ items[1].type = "string" /\ items[1].isDir
          THEN \E n \in {"Dockerfile", "dockerfile"} : n \in items[1].entries
          ELSE \E n \in BaseNames(items) : ToLowerCase(n) = "dockerfile"
\* Detection was true for a list of several items, one of them a Dockerfile
\* written in capitals.
C25_Witness ==
    /\ Len(items) > 1
    /\ "dockerfile" \notin BaseNames(items)
    /\ "Dockerfile" \notin BaseNames(items)
    /\ \E k \in DetectedIdx : trace[k].msg = <<"true">>

----------------------------------------------------------------------------
(* zipFiles on its own *)

\* An item zipFiles cannot add: a path nothing is at, or something that is
\* neither a path nor an object with both `filename` and `content`.
NotThere(it) == it.type = "string" /\ ~it.exists
BadFormat(it) ==
    it.type # "string" /\ ~(it.type = "object" /\ it.hasFilename /\ it.hasContent)
InvalidIdx == {i \in 1..Len(items) : NotThere(items[i]) \/ BadFormat(items[i])}

\* C29: zipFiles goes through the items in order and never resolves when
\* some item is invalid: it rejects with 'File or directory not found:
\* <path>' for a path nothing is at, and with 'Invalid file format: ...' for
\* an item that is neither a path nor an object with filename and content.
C29_InvalidItemRejects ==
    (entry = "zipFiles" /\ pc = "done" /\ InvalidIdx # {}) =>
       LET first == CHOOSE i \in InvalidIdx : \A j \in InvalidIdx : i <= j
       IN  /\ outcome.kind = "thrown"
           /\ IF NotThere(items[first])
              THEN Message(outcome.err) =
                     <<"File or directory not found", items[first].base,
                       Resolve(items[first].root)>>
              ELSE outcome.err.name = "Invalid file format"

----------------------------------------------------------------------------
(* The tools without credentials *)

\* C26: when the tools are registered with gcpCredentialsAvailable false,
\* the handler of every tool returns the fixed text for any input, and no
\* project, service, log or deployment function is ever invoked.
C26_NoCredentialsNoCalls ==
    (tool # "" /\ ~gcpCredentialsAvailable) =>
       /\ trace = <<>>
       /\ outcome = NoOutcome
       /\ pc \in {"tool.start", "tool.done"}
       /\ pc = "tool.done" =>
            result = [kind |-> "text",
                      text |-> <<"GCP credentials are not available. Please configure your environment.">>]
\* A deploy tool whose input would pass every check returned the fixed text.
C26_Witness ==
    /\ ~gcpCredentialsAvailable
    /\ tool = "deploy_local_folder"
    /\ InputError(tool) = ""
    /\ config = FullConfig
    /\ pc = "tool.done"
    /\ result.kind = "text"

----------------------------------------------------------------------------
(* Notifications of deploy_local_folder *)

\* The handler of deploy_local_folder got past its input checks.
FolderDeployStarted ==
    /\ tool = "deploy_local_folder"
    /\ gcpCredentialsAvailable
    /\ input.project # "undefined"
    /\ input.folderPath = "/srv/app"
    /\ pc # "tool.start"
ProgressEvents == SelectSeq(trace, LAMBDA e : e.op = "progress")

\* C27: the handler of deploy_local_folder sends exactly one notification of
\* its own, 'Starting deployment of local folder ...' with level info,
\* before deploy is invoked; every progress event of the pipeline is
\* forwarded as exactly one 'notifications/message' notification with the
\* event's level (info when it has none) and data, in emission order.
C27_NotificationsForwarded ==
    FolderDeployStarted =>
       LET sent == Notifications
           own == {k \in 1..Len(sent) :
                     sent[k].data = <<"Starting deployment of local folder">>}
       IN  /\ own = {1}
           /\ sent[1].level = "info"
           /\ trace[1].op = "progress"
           /\ pc = "deploy.start" => Len(trace) = 1
           /\ Len(sent) = Len(ProgressEvents)
           /\ \A k \in 1..Len(sent) :
                 /\ sent[k].method = "notifications/message"
                 /\ sent[k].data = <<ProgressEvents[k].arg>> \o ProgressEvents[k].msg
                 /\ sent[k].level \in {"debug", "info", "warn", "error"}
                 /\ ProgressEvents[k].val # "" => sent[k].level = ProgressEvents[k].val
\* The deployment of a folder succeeded after a failure that was reported
\* at another level than info.
C27_Witness ==
    /\ FolderDeployStarted
    /\ pc = "tool.done"
    /\ outcome.kind = "returned"
    /\ \E k \in 1..Len(ProgressEvents) : ProgressEvents[k].val \notin {"", "info"}

----------------------------------------------------------------------------
(* Paging of get_service_log *)

\* The page requests made so far, in order.
PageCalls ==
    SelectSeq(trace, LAMBDA e : e.op = "call" /\ e.arg = "getServiceLogs")

\* C28: get_service_log fetches the pages one after another, gives each
\* request the requestOptions of the page before, and stops after the first
\* page without requestOptions; it returns the logs of the non-empty pages
\* joined by newlines in fetch order, and the error text, with no logs, when
\* a page fetch fails.
C28_LogPaging ==
    (tool = "get_service_log" /\ gcpCredentialsAvailable) =>
       LET pages == PageCalls
           n == Len(pages)
           kept == SelectSeq(pages, LAMBDA e : e.ok /\ e.val # "")
       IN  /\ n >= 1 => pages[1].flags = {}
           /\ \A k \in 2..n :
                 /\ pages[k - 1].ok
                 /\ pages[k - 1].msg # <<>>
                 /\ pages[k].flags = {pages[k - 1].msg[1]}
           /\ pc = "tool.logs" => (n = 0 \/ (pages[n].ok /\ pages[n].msg # <<>>))
           /\ pc = "tool.done" =>
                /\ n >= 1
                /\ result.kind = "text"
                /\ IF pages[n].ok
                   THEN /\ pages[n].msg = <<>>
                        /\ Len(result.text) =
                             IF kept = <<>> THEN 0 ELSE 2 * Len(kept) - 1
                        /\ \A i \in 1..Len(kept) : result.text[2 * i - 1] = kept[i].val
                        /\ \A i \in 1..(Len(kept) - 1) : result.text[2 * i] = "\n"
                   ELSE result.text = <<"Error getting Logs for service">> \o pages[n].msg
\* Two pages were fetched, the first one empty, and the logs of the second
\* were returned.
C28_Witness ==
    /\ tool = "get_service_log"
    /\ pc = "tool.done"
    /\ Len(PageCalls) = 2
    /\ PageCalls[1].val = ""
    /\ PageCalls[2].ok
    /\ result.text = <<PageCalls[2].val>>
    /\ PageCalls[2].val # ""

----------------------------------------------------------------------------
(* Content items without content *)

\* The {filename, content} items whose content is empty or missing.
EmptyContentIdx ==
    {i \in 1..Len(items) :
       /\ items[i].type = "object"
       /\ items[i].hasFilename
       /\ ~items[i].hasContent \/ items[i].content = ""}
\* The archive was produced; the archive was sent to the bucket.
Packaged ==
    \E k \in 1..Len(trace) :
       trace[k].op = "call" /\ trace[k].arg = "archiver.finalize" /\ trace[k].ok
Uploaded ==
    \E k \in 1..Len(trace) :
       trace[k].op = "call" /\ trace[k].arg = "storage.bucket.file.save"

\* C30: a deployment request with a content item whose content is empty or
\* missing is rejected before anything is packaged or uploaded, whether it
\* comes through deploy_file_contents or through deploy directly.
C30_EmptyContentRejected ==
    (entry = "deploy" /\ EmptyContentIdx # {}) => (~Packaged /\ ~Uploaded)

----------------------------------------------------------------------------
(* The registered tools *)

LocalOnlyTools ==
    {"deploy_local_folder", "list_projects", "create_project", "create_new_workspace"}
NineTools ==
    {"create_new_workspace", "create_project", "deploy_container_image",
     "deploy_file_contents", "deploy_local_folder", "get_service",
     "get_service_log", "list_projects", "list_services"}

\* C31: registerTools registers exactly the nine tools, each once;
\* registerToolsRemote registers a subset of them without the local-only
\* tools.
C31_NineToolsRegistered ==
    /\ registered.by = "registerTools" =>
         /\ Len(registered.names) = 9
         /\ Range(registered.names) = NineTools
    /\ registered.by = "registerToolsRemote" =>
         /\ Range(registered.names) \subseteq NineTools
         /\ Range(registered.names) \cap LocalOnlyTools = {}
         /\ Cardinality(Range(registered.names)) = Len(registered.names)

----------------------------------------------------------------------------
(* deployToCloudRun: the branch, the two steps, the payloads *)

\* The answers of the exists-check, and the calls on the service.
CheckIdxRun == CallIdx("run.getService")
CheckAnsweredIdx == {i \in CheckIdxRun : trace[i].ok}

\* C32: the exists-check is made once per call and its answer fixes the
\* branch: the dry run and the real mutation are both createService when it
\* reported absence and both updateService when it reported presence, and
\* nothing that happens at the backend afterwards makes the call check again.
C32_BranchFixedByCheck ==
    entry = "deployToCloudRun" =>
      LET answered == CheckAnsweredIdx
          calls == ServiceCallIdx
      IN  /\ Cardinality(answered) <= 1
          /\ calls # {} => Cardinality(answered) = 1
          /\ \A i \in calls :
               /\ \A c \in CheckIdxRun : c < i
               /\ \A c \in answered :
                    trace[i].arg = IF trace[c].val = "exists"
                                   THEN "run.updateService"
                                   ELSE "run.createService"
          /\ \A o \in CallIdx("run.operation") :
               \A c \in answered :
                  trace[o].flags = {IF trace[c].val = "exists"
                                    THEN "run.updateService"
                                    ELSE "run.createService"}
\* The check reported absence, the dry run passed, the first createService
\* was refused by the backend, and the call created again without asking.
C32_Witness ==
    /\ entry = "deployToCloudRun"
    /\ \E c \in CheckAnsweredIdx : trace[c].val = "absent"
    /\ \E i, j \in RealCallIdx :
         /\ i < j
         /\ ~trace[i].ok
         /\ trace[j].arg = "run.createService"
    /\ DryRunCallIdx # {}


\* Where the real-mutation step begins: the event that announces it.
AnnounceIdx ==
    {i \in 1..Len(trace) :
       /\ trace[i].op = "progress"
       /\ trace[i].arg \in {"Updating existing service", "Creating new service"}}

\* C33: a dry-run call is issued and has finished before any real mutation
\* call is issued; every call of the dry-run step carries validateOnly and no
\* call of the real step does; the function returns only after the
\* operation of the real mutation has completed, and returns its result.
C33_DryRunBeforeMutation ==
    entry = "deployToCloudRun" =>
      LET calls == ServiceCallIdx
          announced == AnnounceIdx
          operations == CallIdx("run.operation")
      IN  /\ Cardinality(announced) <= 1
          /\ \A i \in calls :
               IF \E a \in announced : a < i
               THEN /\ "validateOnly" \notin trace[i].flags
                    /\ \E d \in calls : d < i /\ "validateOnly" \in trace[d].flags
               ELSE "validateOnly" \in trace[i].flags
          /\ \A o \in operations :
               /\ o > 1
               /\ trace[o - 1].op = "progress"
               /\ \E i \in calls :
                    /\ i < o /\ trace[i].ok /\ "validateOnly" \notin trace[i].flags
                    /\ \A j \in calls : j <= i
          /\ outcome.kind = "returned" =>
               /\ outcome.id \in operations
               /\ trace[outcome.id].ok
               /\ outcome.val = trace[outcome.id].val
\* The dry run was repeated once, the real update was repeated once, the
\* operation completed and its result was returned.
C33_Witness ==
    /\ entry = "deployToCloudRun"
    /\ outcome.kind = "returned"
    /\ Cardinality(DryRunCallIdx) = 2
    /\ Cardinality(RealCallIdx) = 2
    /\ \E i \in RealCallIdx : trace[i].arg = "run.updateService"


\* C34: the payload of the real mutation carries invokerIamDisabled exactly
\* when skipIamCheck was requested and the dry run succeeded; without
\* skipIamCheck the field is in neither the dry-run nor the real payload.
C34_BypassFlagInRealPayload ==
    entry = "deployToCloudRun" =>
      LET dry == DryRunCallIdx
          real == RealCallIdx
          succeeded == \E d \in dry : trace[d].ok
      IN  /\ \A i \in real :
               ("invokerIamDisabled" \in trace[i].flags) <=>
                  (skipIamCheck /\ succeeded)
          /\ ~skipIamCheck =>
               \A i \in dry \cup real : "invokerIamDisabled" \notin trace[i].flags
\* With skipIamCheck the dry run failed once, was repeated and succeeded,
\* and the real mutation carried the flag.
C34_Witness ==
    /\ entry = "deployToCloudRun"
    /\ skipIamCheck
    /\ \E d \in DryRunCallIdx : ~trace[d].ok
    /\ \E d \in DryRunCallIdx : trace[d].ok
    /\ \E i \in RealCallIdx : "invokerIamDisabled" \in trace[i].flags

\* The payload of the definition built at the start of the call.
Definition ==
    Payload([invokerIamDisabled |-> skipIamCheck, name |-> FALSE,
             image |-> ImgUrl, revision |-> now])
Identity == {ImgUrl, RevisionLabel(now)}

\* C35: the dry-run payload is a copy: while the dry run is under way the
\* definition is as it was built; the dry-run payload is the definition plus
\* the name in the update branch; the real payload differs from the
\* definition at most by the removed bypass flag (only after a failed dry
\* run) and the name of the update branch; image and revision name are the
\* same in every dry-run and real payload.
C35_DryRunPayloadIsACopy ==
    entry = "deployToCloudRun" =>
      LET dry == DryRunCallIdx
          real == RealCallIdx
      IN  /\ pc \in {"run.exists", "run.dryRun"} =>
               /\ Payload(service) = Definition
               /\ real = {}
          /\ \A d \in dry :
               /\ trace[d].flags \ {"validateOnly", "name"} = Definition
               /\ "name" \in trace[d].flags <=> trace[d].arg = "run.updateService"
          /\ \A i \in real :
               /\ \/ trace[i].flags \ {"name"} = Definition
                  \/ /\ trace[i].flags \ {"name"} = Definition \ {"invokerIamDisabled"}
                     /\ \A d \in dry : ~trace[d].ok
               /\ "name" \in trace[i].flags <=> trace[i].arg = "run.updateService"
          /\ \A i \in dry \cup real :
               trace[i].flags \ {"validateOnly", "name", "invokerIamDisabled"} = Identity
\* The update branch: the dry run carried the name and the bypass flag, the
\* flag was rejected, and the real call carried the name without the flag.
C35_Witness ==
    /\ entry = "deployToCloudRun"
    /\ skipIamCheck
    /\ \E d \in DryRunCallIdx :
         /\ {"name", "invokerIamDisabled"} \subseteq trace[d].flags
         /\ \E i \in RealCallIdx :
              /\ d < i
              /\ trace[i].flags = Identity \cup {"name"}

----------------------------------------------------------------------------
(* triggerCloudBuild: the poll loop ends *)

GetBuildIdx == CallIdx("cloudBuild.getBuild")
LastGetBuild == CHOOSE i \in GetBuildIdx : \A j \in GetBuildIdx : j <= i
\* The loop was left by its break: the function went on to the log fetch, or
\* returned.
LoopLeft ==
    \/ pc = "build.getEntries"
    \/ outcome.kind = "returned"
    \/ CallIdx("logging.getEntries") # {}
\* getBuild calls that answered with a status the list does not hold.
OtherStatusIdx ==
    {i \in GetBuildIdx : trace[i].ok /\ trace[i].val \notin TerminalStatuses}
PollSafety ==
    LET polls == GetBuildIdx
        other == OtherStatusIdx
    IN  /\ LoopLeft =>
          /\ polls # {}
          /\ trace[LastGetBuild].ok
          /\ trace[LastGetBuild].val \in
               {"SUCCESS", "FAILURE", "INTERNAL_ERROR", "TIMEOUT", "CANCELLED"}
        /\ \A i \in other :
             /\ i + 2 <= Len(trace)
             /\ trace[i + 2] = Sleep("triggerCloudBuild.poll", BUILD_POLL_INTERVAL)
             /\ \/ pc = "build.getBuild"
                \/ \E j \in polls : j > i
        /\ Cardinality(other) = MaxPolls /\ polls = other => pc = "build.getBuild"
Over == outcome.kind \in {"returned", "thrown"}

\* C36: the poll loop is left only on SUCCESS, FAILURE, INTERNAL_ERROR,
\* TIMEOUT or CANCELLED; every other status, known, unknown or missing, is
\* followed by the poll sleep and another getBuild call, however many came
\* before; and once a terminal status was reported triggerCloudBuild
\* returns or throws.
C36_PollLoopEnds ==
    /\ []PollSafety
    /\ (TerminalIdx # {}) ~> Over
\* After an unknown and a missing status the build succeeded and
\* triggerCloudBuild returned.
C36_Witness ==
    /\ entry = "triggerCloudBuild"
    /\ outcome.kind = "returned"
    /\ \E i, j \in OtherStatusIdx : trace[i].val = "EXPIRED" /\ trace[j].val = ""

----------------------------------------------------------------------------
(* ensureApisEnabled: one capability at a time, in list order *)

\* The capabilities whose step was begun, in the order of the trace; the
\* second attempt at a capability is not a new step.
StepsBegun ==
    LET firsts == SelectSeq([i \in 1..Len(trace) |->
                               IF trace[i].op = "enter"
                                    /\ trace[i].arg = "checkAndEnableApi"
                                    /\ ~IsRetryEnter(i)
                               THEN trace[i].val ELSE ""],
                            LAMBDA v : v # "")
    IN  firsts
\* A call that ends the step of a capability with success: its state was
\* fetched as ENABLED, or its activation operation completed.
EndsStep(e) ==
    /\ e.op = "call" /\ e.ok
    /\ \/ e.arg = "serviceUsage.getService" /\ e.val = "ENABLED"
       \/ e.arg = "enableService.operation"
ClosingIdx ==
    {i \in 1..Len(trace) :
       trace[i].op = "progress" /\ trace[i].arg = "All required APIs are enabled."}

\* C37: the gate takes the capabilities in list order, one at a time; the
\* state of the next capability is fetched only after the step of the one
\* before ended with success (its state fetched as ENABLED, or its
\* activation operation completed), a failed gate fetches nothing more, and
\* the closing event is emitted only after a successful step for every
\* capability of the list.
C37_OneCapabilityAtATime ==
    entry = "ensureApisEnabled" =>
      LET enters == EnterIdx
          ended == {i \in 1..Len(trace) : EndsStep(trace[i])}
      IN  /\ StepsBegun = SubSeq(apis, 1, apiIdx)
          /\ \A e \in enters :
               /\ e + 1 <= Len(trace) =>
                    /\ trace[e + 1].op = "call"
                    /\ trace[e + 1].arg = "serviceUsage.getService"
                    /\ trace[e + 1].flags = {trace[e].val}
               /\ ~IsRetryEnter(e) /\ e > 2 => EndsStep(trace[e - 1])
          /\ \A i \in CallIdx("serviceUsage.getService") :
               trace[i - 1].op \in {"enter", "sleep"}
          /\ \A i \in ended : i < Len(trace) /\ i + 1 \notin ClosingIdx =>
               trace[i + 1].op = "enter" /\ ~IsRetryEnter(i + 1)
          /\ outcome.kind = "thrown" =>
               /\ ClosingIdx = {}
               /\ trace[Len(trace)].op = "throw"
          /\ ClosingIdx # {} =>
               /\ Cardinality(ended) = Len(apis)
               /\ apiIdx = Len(apis)
               /\ outcome.kind = "returned"
\* Two capabilities: the first was found disabled and its activation
\* completed before the state of the second was fetched, and the closing
\* event was emitted.
C37_Witness ==
    /\ entry = "ensureApisEnabled"
    /\ Len(apis) = 2
    /\ ClosingIdx # {}
    /\ \E i \in CallIdx("enableService.operation") :
         /\ trace[i].ok
         /\ trace[i].flags = {apis[1]}
         /\ \E j \in CallIdx("serviceUsage.getService") :
              j > i /\ trace[j].flags = {apis[2]}

----------------------------------------------------------------------------
(* triggerCloudBuild: the log snippet of the build error *)

\* The answer of the log fetch that was not repeated.
LastGetEntries ==
    LET ge == CallIdx("logging.getEntries")
    IN  CHOOSE i \in ge : \A j \in ge : j <= i

\* C38: when the log fetch returned n >= 1 entries, newest first, the error
\* thrown carries n lines, line i being the data of entry n + 1 - i, or the
\* empty line when that entry has no data, and its heading states n.
C38_SnippetOldestFirst ==
    (entry = "triggerCloudBuild" /\ pc = "done"
       /\ CallIdx("logging.getEntries") # {}) =>
      LET entries == trace[LastGetEntries].msg
          n == Len(entries)
          e == outcome.err
      IN  (trace[LastGetEntries].ok /\ n >= 1) =>
            /\ outcome.kind = "thrown"
            /\ Len(e.lines) = n
            /\ \A i \in 1..n :
                 e.lines[i] = IF entries[n + 1 - i] = NoData THEN ""
                              ELSE entries[n + 1 - i]
            /\ e.msg = <<"Last",
                         CASE n = 1 -> "1" [] n = 2 -> "2" [] n = 3 -> "3"
                           [] OTHER -> "more",
                         "log lines from build">>
            /\ e.subject = BuildId
\* Two entries, the newer one without data: the snippet has the older
\* entry's text, then an empty line.
C38_Witness ==
    /\ entry = "triggerCloudBuild"
    /\ pc = "done"
    /\ outcome.kind = "thrown"
    /\ outcome.err.lines = <<"step 1", "">>
    /\ \E g \in CallIdx("logging.getEntries") :
         trace[g].ok /\ trace[g].msg = <<NoData, "step 1">>

----------------------------------------------------------------------------
(* The deploy tools: what is thrown and what is returned as text *)

\* The input failures the handlers check before the deployment starts.
ListedFailure ==
    \/ input.project = "undefined"
    \/ tool = "deploy_local_folder" /\ input.folderPath \in {"undefined", ""}
    \/ tool = "deploy_container_image" /\ input.imageUrl \in {"undefined", ""}
    \/ /\ tool = "deploy_file_contents"
       /\ \/ input.files \in {"undefined", "empty"}
          \/ \E k \in 1..Len(items) :
               ~items[k].hasContent \/ items[k].content = ""
ErrorDeploying ==
    {"Error deploying folder to Cloud Run", "Error deploying to Cloud Run"}

\* C39: in the three deploy handlers a failure of deploy / deployImage is
\* never thrown on: the handler resolves with one text that starts with
\* 'Error deploying' and goes on with the error's message, and the process
\* is not ended; the handler throws exactly for the input failures it checks
\* first, and then deploy / deployImage was not called.
C39_DeployFailuresAreText ==
    (tool \in DeployTools /\ gcpCredentialsAvailable) =>
      /\ outcome.kind # "exited"
      /\ outcome.kind = "thrown" =>
           /\ ~ListedFailure
           /\ result.kind # "thrown"
           /\ pc = "tool.done" =>
                /\ result.kind = "text"
                /\ result.text[1] \in ErrorDeploying
                /\ Tail(result.text) = Message(outcome.err)
      /\ result.kind = "thrown" =>
           /\ ListedFailure
           /\ trace = <<>>
           /\ outcome = NoOutcome
      /\ ListedFailure =>
           /\ trace = <<>>
           /\ outcome = NoOutcome
           /\ pc \in {"tool.start", "tool.done"}
           /\ pc = "tool.done" => result.kind = "thrown"
\* deploy_file_contents with sound input: the deployment failed at the
\* backend and the handler resolved with the error text.
C39_Witness ==
    /\ tool = "deploy_file_contents"
    /\ gcpCredentialsAvailable
    /\ pc = "tool.done"
    /\ outcome.kind = "thrown"
    /\ outcome.err.name = "backend"
    /\ result = Text(<<"Error deploying to Cloud Run">> \o outcome.err.msg)

====
